---- MODULE Spec2Model ----
(***************************************************************************)
(* A model of jellyfin-ai-manager: the folder-watch batching engine        *)
(* (src/core/watcher.py), the start-up scan (src/main.py), the per-item    *)
(* linking (src/core/processor.py, src/utils/fs_utils.py) and the          *)
(* reconciliation sweep (src/utils/scanner.py).                            *)
(*                                                                         *)
(* An inbox path is a record [dir, stem, ext]; a destination path is the    *)
(* sequence of its components.  A stem is a sequence of characters          *)
(* (one-letter strings), so that "starts with" is a real prefix test.       *)
(***************************************************************************)
EXTENDS Integers, Sequences, FiniteSets, TLC

VARIABLES
  \* the debouncer (MediaWatcherHandler, src/core/watcher.py)
  now,                      \* the clock, in units of one tick
  timed,                    \* TRUE: timers wait for their deadline; FALSE: time is abstracted
  batch_lock,               \* "free" or the thread that holds MediaWatcherHandler.batch_lock
  obs,                      \* the watchdog thread: where it is inside a callback
  pending_batches,          \* folder -> [files, timer]
  timers,                   \* every threading.Timer ever created: [folder, deadline, st]
  n_notif,                  \* number of notifications that inserted or enqueued something
  ins_log,                  \* history: every _queue_for_batching call
  batch_log,                \* history: every batch_created event ever enqueued
  event_queue,              \* MediaWatcherHandler.event_queue
  \* the file system
  inbox,                    \* the inbox paths (under config.mixed_path) that exist
  dest,                     \* destination path -> [kind, target]: the files of both roots
  dest_dirs,                \* the directories that exist beneath the destination roots
  journal,                  \* root -> the lines of its .failed file
  \* the threads that write the destination tree
  main,                     \* the main thread: setup_watcher, run_initial_scan, the flag
  is_initial_scan_complete, \* MediaWatcherHandler.is_initial_scan_complete
  cons,                     \* the thread that runs process_events
  \* history
  llm_calls,                \* every extract_media_info_batch call
  refresh_log,              \* every refresh_library call
  sweep_log,                \* every cleanup_broken_links call made on its own
  call_log                  \* every call of a linking function made on its own

deb_vars == <<now, timed, batch_lock, obs, pending_batches, timers, n_notif,
              ins_log, batch_log>>
fs_vars == <<inbox, dest, dest_dirs, journal>>
hist_vars == <<llm_calls, refresh_log, sweep_log, call_log>>
run_vars == <<main, is_initial_scan_complete, cons, hist_vars>>

vars == <<deb_vars, event_queue, fs_vars, run_vars>>

-----------------------------------------------------------------------------
(* Bounds *)

MaxNotifs == 3
MaxTime == 6
MaxLatency == 1

-----------------------------------------------------------------------------
(* Extensions and path helpers *)

video_extensions == {"mkv", "mp4"}
audio_extensions == {"mka"}
subtitle_extensions == {"ass"}
external_media_extensions == audio_extensions \cup subtitle_extensions

\* str.lower() on the extensions the model uses
lower(e) == CASE e = "MKV" -> "mkv"
              [] e = "MKA" -> "mka"
              [] OTHER -> e

NoPath == [dir |-> "", stem |-> <<>>, ext |-> ""]

dirname(p) == p.dir

\* 10.0 seconds in the source; one model tick is batch_timeout / 2
batch_timeout == 2

NoTimer == 0

IdleObs == [pc |-> "idle", file |-> NoPath]

BatchEvent(folder, files) ==
  [type |-> "batch_created", folder |-> folder, files |-> files, path |-> NoPath]
PathEvent(type, p) ==
  [type |-> type, folder |-> "", files |-> {}, path |-> p]

-----------------------------------------------------------------------------
(* threading.Timer *)

\* Timer.cancel(): sets the finished flag; it stops a timer that is still
\* waiting, and changes nothing for one whose wait has already timed out
TimerCancelWeak(ts, i) == ts
TimerCancel(ts, i) ==
  IF i # NoTimer /\ ts[i].st = "armed"
  THEN [ts EXCEPT ![i].st = "cancelled"]
  ELSE ts

\* Timer.run(): finished.wait(interval) timed out and the flag was not set
TimerExpire(i) ==
  /\ i \in 1..Len(timers)
  /\ timers[i].st = "armed"
  /\ (timed => timers[i].deadline <= now)
  /\ timers' = [timers EXCEPT ![i].st = "fired"]
  /\ UNCHANGED <<now, timed, batch_lock, obs, pending_batches,
                 event_queue, n_notif, ins_log, batch_log>>

-----------------------------------------------------------------------------
(* MediaWatcherHandler: notification callbacks *)

\* _queue_for_batching is entered: batch_lock is taken
EnterQueueForBatching(p) ==
  /\ batch_lock = "free"
  /\ batch_lock' = "observer"
  /\ obs' = [pc |-> "queue_for_batching", file |-> p]

\* The callbacks are given the notification; the change of the inbox that
\* caused it is stated by the action that delivers it.  n_notif counts the
\* notifications that insert or enqueue something.
\* a callback that batches every media file, audio and subtitles included
on_created_media(is_directory, p) ==
  /\ obs.pc = "idle"
  /\ n_notif < MaxNotifs
  /\ IF is_directory
     THEN UNCHANGED <<batch_lock, obs, event_queue, n_notif>>
     ELSE IF lower(p.ext) \in video_extensions \cup external_media_extensions
     THEN /\ EnterQueueForBatching(p)
          /\ n_notif' = n_notif + 1
          /\ UNCHANGED event_queue
     ELSE UNCHANGED <<batch_lock, obs, event_queue, n_notif>>
  /\ UNCHANGED <<now, timed, pending_batches, timers, ins_log, batch_log>>

on_created(is_directory, p) ==
  /\ obs.pc = "idle"
  /\ n_notif < MaxNotifs
  /\ IF is_directory
     THEN UNCHANGED <<batch_lock, obs, event_queue, n_notif>>
     ELSE IF lower(p.ext) \in video_extensions
     THEN /\ EnterQueueForBatching(p)
          /\ n_notif' = n_notif + 1
          /\ UNCHANGED event_queue
     ELSE IF lower(p.ext) \in external_media_extensions
     THEN /\ event_queue' = Append(event_queue, PathEvent("external_media_added", p))
          /\ n_notif' = n_notif + 1
          /\ UNCHANGED <<batch_lock, obs>>
     ELSE UNCHANGED <<batch_lock, obs, event_queue, n_notif>>
  /\ UNCHANGED <<now, timed, pending_batches, timers, ins_log, batch_log>>

\* a callback that reports the deletions of videos only
on_deleted_videos(is_directory, p) ==
  /\ obs.pc = "idle"
  /\ n_notif < MaxNotifs
  /\ IF is_directory \/ lower(p.ext) \notin video_extensions
     THEN UNCHANGED <<event_queue, n_notif>>
     ELSE /\ event_queue' = Append(event_queue, PathEvent("deleted", p))
          /\ n_notif' = n_notif + 1
  /\ UNCHANGED <<now, timed, batch_lock, obs, pending_batches, timers,
                 ins_log, batch_log>>

on_deleted(is_directory, p) ==
  /\ obs.pc = "idle"
  /\ n_notif < MaxNotifs
  /\ IF is_directory
     THEN UNCHANGED <<event_queue, n_notif>>
     ELSE /\ event_queue' = Append(event_queue, PathEvent("deleted", p))
          /\ n_notif' = n_notif + 1
  /\ UNCHANGED <<now, timed, batch_lock, obs, pending_batches, timers,
                 ins_log, batch_log>>

on_moved(is_directory, src, dst) ==
  /\ obs.pc = "idle"
  /\ n_notif < MaxNotifs
  /\ IF is_directory
     THEN UNCHANGED <<batch_lock, obs, event_queue, n_notif>>
     ELSE IF lower(dst.ext) \in video_extensions
     THEN /\ EnterQueueForBatching(dst)
          /\ n_notif' = n_notif + 1
          /\ UNCHANGED event_queue
     ELSE IF lower(dst.ext) \in external_media_extensions
     THEN /\ event_queue' = event_queue \o <<PathEvent("deleted", src),
                                             PathEvent("external_media_added", dst)>>
          /\ n_notif' = n_notif + 1
          /\ UNCHANGED <<batch_lock, obs>>
     ELSE UNCHANGED <<batch_lock, obs, event_queue, n_notif>>
  /\ UNCHANGED <<now, timed, pending_batches, timers, ins_log, batch_log>>

\* a body that returns with batch_lock still held
queue_for_batching_held ==
  /\ obs.pc = "queue_for_batching"
  /\ batch_lock = "observer"
  /\ LET file_path == obs.file
         folder_path == dirname(file_path)
         batch == IF folder_path \in DOMAIN pending_batches
                  THEN pending_batches[folder_path]
                  ELSE [files |-> {}, timer |-> NoTimer]
         timer == Len(timers) + 1
     IN /\ timers' = Append(TimerCancel(timers, batch.timer),
                            [folder |-> folder_path,
                             deadline |-> now + batch_timeout,
                             st |-> "armed"])
        /\ pending_batches' =
             [f \in DOMAIN pending_batches \cup {folder_path} |->
                IF f = folder_path
                THEN [files |-> batch.files \cup {file_path}, timer |-> timer]
                ELSE pending_batches[f]]
        /\ ins_log' = Append(ins_log, [file |-> file_path, folder |-> folder_path,
                                       t |-> now, nb |-> Len(batch_log)])
  /\ batch_lock' = batch_lock
  /\ obs' = IdleObs
  /\ UNCHANGED <<now, timed, event_queue, n_notif, batch_log>>

\* the body of _queue_for_batching, under batch_lock
queue_for_batching ==
  /\ obs.pc = "queue_for_batching"
  /\ batch_lock = "observer"
  /\ LET file_path == obs.file
         folder_path == dirname(file_path)
         batch == IF folder_path \in DOMAIN pending_batches
                  THEN pending_batches[folder_path]
                  ELSE [files |-> {}, timer |-> NoTimer]
         timer == Len(timers) + 1
     IN /\ timers' = Append(TimerCancel(timers, batch.timer),
                            [folder |-> folder_path,
                             deadline |-> now + batch_timeout,
                             st |-> "armed"])
        /\ pending_batches' =
             [f \in DOMAIN pending_batches \cup {folder_path} |->
                IF f = folder_path
                THEN [files |-> batch.files \cup {file_path}, timer |-> timer]
                ELSE pending_batches[f]]
        /\ ins_log' = Append(ins_log, [file |-> file_path, folder |-> folder_path,
                                       t |-> now, nb |-> Len(batch_log)])
  /\ batch_lock' = "free"
  /\ obs' = IdleObs
  /\ UNCHANGED <<now, timed, event_queue, n_notif, batch_log>>

\* what _trigger_batch leaves in pending_batches: the folder's entry is popped
PopKeep(folder_path) == pending_batches
PopFolder(folder_path) ==
  [f \in DOMAIN pending_batches \ {folder_path} |-> pending_batches[f]]

\* a timer callback that pops the folder and enqueues only when it belongs to
\* the timer the folder's entry names
trigger_batch_newest(i) ==
  /\ i \in 1..Len(timers)
  /\ timers[i].st = "fired"
  /\ batch_lock = "free"
  /\ timers' = [timers EXCEPT ![i].st = "done"]
  /\ LET folder_path == timers[i].folder
     IN IF folder_path \in DOMAIN pending_batches
        THEN LET files == pending_batches[folder_path].files
             IN /\ pending_batches' = PopFolder(folder_path)
                /\ IF files # {} /\ pending_batches[folder_path].timer = i
                   THEN /\ event_queue' = Append(event_queue, BatchEvent(folder_path, files))
                        /\ batch_log' = Append(batch_log,
                               [folder |-> folder_path, files |-> files, t |-> now,
                                timer |-> i, ni |-> Len(ins_log)])
                   ELSE UNCHANGED <<event_queue, batch_log>>
        ELSE UNCHANGED <<pending_batches, event_queue, batch_log>>
  /\ UNCHANGED <<now, timed, batch_lock, obs, n_notif, ins_log>>

\* the timer callback: it takes batch_lock, pops the folder and enqueues
trigger_batch(i) ==
  /\ i \in 1..Len(timers)
  /\ timers[i].st = "fired"
  /\ batch_lock = "free"
  /\ timers' = [timers EXCEPT ![i].st = "done"]
  /\ LET folder_path == timers[i].folder
     IN IF folder_path \in DOMAIN pending_batches
        THEN LET files == pending_batches[folder_path].files
             IN /\ pending_batches' = PopFolder(folder_path)
                /\ IF files # {}
                   THEN /\ event_queue' = Append(event_queue, BatchEvent(folder_path, files))
                        /\ batch_log' = Append(batch_log,
                               [folder |-> folder_path, files |-> files, t |-> now,
                                timer |-> i, ni |-> Len(ins_log)])
                   ELSE UNCHANGED <<event_queue, batch_log>>
        ELSE UNCHANGED <<pending_batches, event_queue, batch_log>>
  /\ UNCHANGED <<now, timed, batch_lock, obs, n_notif, ins_log>>

\* time passes.  A timer whose deadline has come wakes before the next tick; its
\* callback (another thread, which must still be scheduled and take batch_lock)
\* runs at most MaxLatency ticks after the deadline; the critical section of
\* _queue_for_batching takes no time.
Tick ==
  /\ timed
  /\ now < MaxTime
  /\ batch_lock = "free"
  /\ \A i \in 1..Len(timers) :
       /\ ~(timers[i].st = "armed" /\ timers[i].deadline <= now)
       /\ ~(timers[i].st = "fired" /\ timers[i].deadline + MaxLatency <= now)
  /\ now' = now + 1
  /\ UNCHANGED <<timed, batch_lock, obs, pending_batches, timers,
                 event_queue, n_notif, ins_log, batch_log>>

-----------------------------------------------------------------------------
(* The debouncer alone, with the clock *)

BatchPaths ==
  { [dir |-> "A", stem |-> <<"a">>, ext |-> "mkv"],
    [dir |-> "A", stem |-> <<"b">>, ext |-> "MKV"],
    [dir |-> "B", stem |-> <<"a">>, ext |-> "mp4"],
    [dir |-> "A", stem |-> <<"a">>, ext |-> "mka"],
    [dir |-> "A", stem |-> <<"a">>, ext |-> "txt"] }

\* the deletions and the renames (<<source, destination>>) the debouncer is
\* driven with
BatchDeleted ==
  { [dir |-> "A", stem |-> <<"a">>, ext |-> "mkv"] }
BatchMoves ==
  { << [dir |-> "A", stem |-> <<"a">>, ext |-> "mkv"], [dir |-> "B", stem |-> <<"a">>, ext |-> "mp4"] >>,
    << [dir |-> "A", stem |-> <<"a">>, ext |-> "txt"], [dir |-> "A", stem |-> <<"a">>, ext |-> "mka"] >> }

InitDebouncer ==
  /\ now = 0
  /\ batch_lock = "free"
  /\ obs = IdleObs
  /\ pending_batches = << >>
  /\ timers = << >>
  /\ event_queue = << >>
  /\ n_notif = 0
  /\ ins_log = << >>
  /\ batch_log = << >>

\* the rest of the program stands still: nothing consumes the queue
InitBatch ==
  /\ InitDebouncer
  /\ timed \in BOOLEAN
  /\ inbox = {}
  /\ dest = << >>
  /\ dest_dirs = {}
  /\ journal = [r \in {"movies", "series"} |-> << >>]
  /\ main = [pc |-> "setup"]
  /\ is_initial_scan_complete = FALSE
  /\ cons = [pc |-> "not_started"]
  /\ llm_calls = << >>
  /\ refresh_log = << >>
  /\ sweep_log = << >>
  /\ call_log = << >>

NextBatch ==
  \/ \E d \in BOOLEAN, p \in BatchPaths :
       on_created(d, p) /\ UNCHANGED <<fs_vars, run_vars>>
  \/ \E d \in BOOLEAN, p \in BatchDeleted :
       on_deleted(d, p) /\ UNCHANGED <<fs_vars, run_vars>>
  \/ \E d \in BOOLEAN, m \in BatchMoves :
       on_moved(d, m[1], m[2]) /\ UNCHANGED <<fs_vars, run_vars>>
  \/ queue_for_batching /\ UNCHANGED <<fs_vars, run_vars>>
  \/ \E i \in 1..Len(timers) : TimerExpire(i) /\ UNCHANGED <<fs_vars, run_vars>>
  \/ \E i \in 1..Len(timers) : trigger_batch(i) /\ UNCHANGED <<fs_vars, run_vars>>
  \/ Tick /\ UNCHANGED <<fs_vars, run_vars>>

SpecBatch == InitBatch /\ [][NextBatch]_vars

-----------------------------------------------------------------------------
(* History views used by the properties of the debouncer *)

Folders == {"A", "B"}

InsOf(F) == SelectSeq(ins_log, LAMBDA r : r.folder = F)
BatchesOf(F) == SelectSeq(batch_log, LAMBDA b : b.folder = F)
FilesOf(s, lo, hi) == { s[k].file : k \in lo..hi }
Gap(s, k) == s[k + 1].t - s[k].t

LiveTimers(F) ==
  { i \in 1..Len(timers) : timers[i].folder = F /\ timers[i].st \in {"armed", "fired"} }

\* nothing of folder F is on its way any more
Quiet(F) ==
  /\ F \notin DOMAIN pending_batches
  /\ LiveTimers(F) = {}
  /\ ~(obs.pc = "queue_for_batching" /\ dirname(obs.file) = F)

LongGaps(ins) ==
  { k \in 1..(Len(ins) - 1) : Gap(ins, k) > batch_timeout + MaxLatency }
ShortGaps(ins) ==
  { k \in 1..(Len(ins) - 1) : Gap(ins, k) < batch_timeout }

\* the k-th batch of a folder whose gaps are all short or long holds the files
\* inserted between the (k-1)-th and the k-th long gap
Segment(ins, k) ==
  LET starts == {1} \cup { g + 1 : g \in LongGaps(ins) }
      first == CHOOSE a \in starts : Cardinality({ b \in starts : b < a }) = k - 1
      ends == { g : g \in LongGaps(ins) } \cup {Len(ins)}
      last == CHOOSE e \in ends : Cardinality({ b \in ends : b < e }) = k - 1
  IN FilesOf(ins, first, last)

LastBatch(F) ==
  LET js == { j \in 1..Len(batch_log) : batch_log[j].folder = F }
  IN IF js = {} THEN 0 ELSE CHOOSE j \in js : \A i \in js : i <= j
\* the batch of folder F before batch j (0: none)
PrevBatch(F, j) ==
  LET js == { i \in 1..(j - 1) : batch_log[i].folder = F }
  IN IF js = {} THEN 0 ELSE CHOOSE a \in js : \A i \in js : i <= a
\* the files inserted into F after lo batches and before hi batches had been enqueued
InsertedBetween(F, lo, hi) ==
  { ins_log[k].file : k \in { i \in 1..Len(ins_log) :
        ins_log[i].folder = F /\ lo <= ins_log[i].nb /\ ins_log[i].nb < hi } }

\* C2: exactly-once hand-off, under every interleaving.  For each folder: every
\* batch_created event holds exactly the files inserted since the folder's
\* previous batch (nothing twice, nothing dropped, never empty); the files
\* inserted since the last batch are exactly the folder's pending file set, and
\* a timer that will flush them is outstanding; a folder with nothing inserted
\* since its last batch has no key in pending_batches (the key went with the
\* flush).
C2_ExactlyOnceHandOff ==
  \A F \in Folders :
    LET since == InsertedBetween(F, LastBatch(F), Len(batch_log) + 1)
    IN /\ F \in DOMAIN pending_batches <=> since # {}
       /\ F \in DOMAIN pending_batches =>
            /\ pending_batches[F].files = since
            /\ LiveTimers(F) # {}
       /\ \A j \in 1..Len(batch_log) :
            batch_log[j].folder = F =>
              /\ batch_log[j].files # {}
              /\ batch_log[j].files = InsertedBetween(F, PrevBatch(F, j), j)

\* C2 witness: a timer that had fired before a later insertion cancelled it has
\* flushed the folder, and the later timer found nothing
C2_Witness ==
  \E i, j \in 1..Len(timers) :
    /\ i < j
    /\ timers[i].folder = timers[j].folder
    /\ timers[i].st = "done" /\ timers[j].st = "done"
    /\ \E b \in 1..Len(batch_log) :
         /\ batch_log[b].timer = i
         /\ batch_log[b].ni >= j
    /\ \A b \in 1..Len(batch_log) : batch_log[b].timer # j

-----------------------------------------------------------------------------
(* Absolute paths.  Where the code computes with path strings (relpath,    *)
(* join, normpath, dirname) a path is the sequence of its components; a    *)
(* component is a directory name or a file name split into stem and        *)
(* extension.                                                              *)

Dir(n) == [name |-> n, stem |-> << >>, ext |-> ""]
File(s, e) == [name |-> "", stem |-> s, ext |-> e]

mixed_path == <<Dir("mixed")>>
movies_dest_path == <<Dir("movies")>>
series_dest_path == <<Dir("series")>>

\* the directories of the inbox: the root "" and two folders beneath it
InboxFolders == {"", "A", "B"}
FolderPath(d) == IF d = "" THEN mixed_path ELSE mixed_path \o <<Dir(d)>>

\* os.path.abspath of an inbox path
abspath(p) == FolderPath(p.dir) \o <<File(p.stem, p.ext)>>

parent(path) == SubSeq(path, 1, Len(path) - 1)
basename(path) == path[Len(path)]

RECURSIVE CommonLen(_, _)
CommonLen(a, b) ==
  IF a # << >> /\ b # << >> /\ Head(a) = Head(b)
  THEN 1 + CommonLen(Tail(a), Tail(b))
  ELSE 0

\* os.path.relpath(path, start)
relpath(path, start) ==
  LET c == CommonLen(path, start)
      r == [i \in 1..(Len(start) - c) |-> Dir("..")] \o SubSeq(path, c + 1, Len(path))
  IN  IF r = << >> THEN <<Dir(".")>> ELSE r

RECURSIVE Norm(_, _)
Norm(stack, rest) ==
  IF rest = << >> THEN stack
  ELSE IF Head(rest) = Dir(".") THEN Norm(stack, Tail(rest))
  ELSE IF Head(rest) = Dir("..")
       THEN Norm(SubSeq(stack, 1, Len(stack) - 1), Tail(rest))
  ELSE Norm(Append(stack, Head(rest)), Tail(rest))

\* os.path.normpath(os.path.join(base, rel)) for a relative rel
normjoin(base, rel) == Norm(<< >>, base \o rel)

IsPrefix(s, t) == Len(s) <= Len(t) /\ SubSeq(t, 1, Len(s)) = s

\* one statement after another: the value v of the first is computed once and
\* handed to the rest
Then(v, Rest(_)) == CHOOSE r \in {Rest(x) : x \in {v}} : TRUE

-----------------------------------------------------------------------------
(* The file system: fs = [dest, dirs, journal] is the destination side,    *)
(* inb the set of inbox files.                                             *)

LinkEntry(target) == [kind |-> "link", target |-> target]
FileEntry == [kind |-> "file", target |-> << >>]

EmptyFs == [dest |-> << >>, dirs |-> {},
            journal |-> [r \in {"movies", "series"} |-> << >>]]

RootName(root) == root[1].name

InboxHas(inb, path) ==
  \/ \E p \in inb : abspath(p) = path
  \/ \E d \in InboxFolders : FolderPath(d) = path

islink(fs, path) == path \in DOMAIN fs.dest /\ fs.dest[path].kind = "link"

\* os.readlink, made absolute as the callers do
resolve(fs, path) == normjoin(parent(path), fs.dest[path].target)

\* os.path.exists: follows a link to its target
exists(fs, inb, path) ==
  \/ InboxHas(inb, path)
  \/ path \in fs.dirs
  \/ path \in {movies_dest_path, series_dest_path}
  \/ /\ path \in DOMAIN fs.dest
     /\ \/ fs.dest[path].kind = "file"
        \/ InboxHas(inb, resolve(fs, path))

Put(f, k, v) == [x \in DOMAIN f \cup {k} |-> IF x = k THEN v ELSE f[x]]
Drop(f, ks) == [x \in DOMAIN f \ ks |-> f[x]]

\* os.makedirs(path, exist_ok=True): the directories beneath a root
makedirs(fs, path) ==
  [fs EXCEPT !.dirs = @ \cup {SubSeq(path, 1, k) : k \in 2..Len(path)}]

\* create_relative_symlink: [fs, ok].  fault is what the operating system
\* refuses; os.symlink also fails when dst is a link whose target is gone.
create_relative_symlink(fs, inb, src, dst, fault) ==
  IF exists(fs, inb, dst) THEN [fs |-> fs, ok |-> TRUE]
  ELSE IF fault = "makedirs" THEN [fs |-> fs, ok |-> FALSE]
  ELSE IF fault = "symlink" \/ dst \in DOMAIN fs.dest
       THEN [fs |-> makedirs(fs, parent(dst)), ok |-> FALSE]
  ELSE [fs |-> [makedirs(fs, parent(dst)) EXCEPT
                  !.dest = Put(@, dst, LinkEntry(relpath(src, parent(dst))))],
        ok |-> TRUE]

\* open(path, "w"): the metadata writers of src/utils/nfo_generator.py
write_file(fs, path) == [fs EXCEPT !.dest = Put(@, path, FileEntry)]

SeqToSet(s) == {s[i] : i \in 1..Len(s)}

\* a journal writer that appends without reading the file first
mark_as_failed_blind(fs, file_path, base_dest_path) ==
  [fs EXCEPT !.journal[RootName(base_dest_path)] =
     Append(@, relpath(file_path, mixed_path))]

\* mark_as_failed(file_path, base_dest_path, mixed_path)
mark_as_failed(fs, file_path, base_dest_path) ==
  LET rel_path == relpath(file_path, mixed_path)
      r == RootName(base_dest_path)
  IN  IF rel_path \in SeqToSet(fs.journal[r]) THEN fs
      ELSE [fs EXCEPT !.journal[r] = Append(@, rel_path)]

\* get_failed_files: absolute inbox paths
get_failed_files(fs) ==
  {normjoin(mixed_path, l) : l \in SeqToSet(fs.journal["movies"])
                                     \cup SeqToSet(fs.journal["series"])}

nfo_of(path) == parent(path) \o <<File(basename(path).stem, "nfo")>>

IsVideo(path) == lower(basename(path).ext) \in video_extensions

\* an index that does not ask for the .nfo
get_processed_files_any(fs, inb) ==
  {resolve(fs, v) : v \in {d \in DOMAIN fs.dest :
      IsVideo(d) /\ islink(fs, d) /\ exists(fs, inb, resolve(fs, d))}}

\* get_processed_files: absolute inbox paths
get_processed_files(fs, inb) ==
  {resolve(fs, v) : v \in {d \in DOMAIN fs.dest :
      /\ IsVideo(d)
      /\ exists(fs, inb, nfo_of(d))
      /\ islink(fs, d)
      /\ exists(fs, inb, resolve(fs, d))}}

-----------------------------------------------------------------------------
(* Sidecars: find_external_audio_and_subtitles and link_external_media     *)

RECURSIVE SetToSeq(_)
SetToSeq(S) ==
  IF S = {} THEN << >>
  ELSE Then(CHOOSE y \in S : TRUE, LAMBDA x : <<x>> \o SetToSeq(S \ {x}))

\* the file name as the string the code tests with startswith
FileName(c) == IF c.ext = "" THEN c.stem ELSE c.stem \o <<".", c.ext>>

AllDirs(fs) ==
  {FolderPath(d) : d \in InboxFolders} \cup {movies_dest_path, series_dest_path}
    \cup fs.dirs
AllFiles(fs, inb) == {abspath(p) : p \in inb} \cup DOMAIN fs.dest

\* the files os.walk(d) lists, at any depth
walk(fs, inb, d) == {f \in AllFiles(fs, inb) : IsPrefix(d, f)}

\* find_external_audio_and_subtitles: the candidates in the order found
find_external_audio_and_subtitles(fs, inb, video_file_path) ==
  LET video_dir == parent(video_file_path)
      video_name_no_ext == basename(video_file_path).stem
      parent_dir == parent(video_dir)
      siblings == {c \in AllDirs(fs) : parent(c) = parent_dir /\ c # video_dir}
      children == {c \in AllDirs(fs) : parent(c) = video_dir}
  IN  Then(<<video_dir>> \o SetToSeq(siblings) \o SetToSeq(children),
           LAMBDA search_dirs :
      LET Match(f) == IsPrefix(video_name_no_ext, FileName(basename(f)))
          Found(k, exts) ==
            {f \in walk(fs, inb, search_dirs[k]) :
               /\ Match(f)
               /\ lower(basename(f).ext) \in exts
               /\ \A j \in 1..(k - 1) : f \notin walk(fs, inb, search_dirs[j])}
          RECURSIVE Collect(_, _)
          Collect(k, exts) ==
            IF k > Len(search_dirs) THEN << >>
            ELSE SetToSeq(Found(k, exts)) \o Collect(k + 1, exts)
      IN  [audio |-> Collect(1, audio_extensions),
           subtitles |-> Collect(1, subtitle_extensions)])

\* a naming that drops the suffix of every candidate
sidecar_dest_plain(video_src_path, video_dest_path, src_path) ==
  parent(video_dest_path)
    \o <<File(basename(video_dest_path).stem, basename(src_path).ext)>>

\* the destination name link_external_media gives a candidate
sidecar_dest(video_src_path, video_dest_path, src_path) ==
  LET src_stem == basename(video_src_path).stem
      cand == basename(src_path)
      suffix == IF IsPrefix(src_stem, cand.stem)
                THEN SubSeq(cand.stem, Len(src_stem) + 1, Len(cand.stem))
                ELSE << >>
  IN  parent(video_dest_path)
        \o <<File(basename(video_dest_path).stem \o suffix, cand.ext)>>

RECURSIVE link_each(_, _, _, _, _)
link_each(st, inb, video_src_path, video_dest_path, cands) ==
  IF cands = << >> THEN st
  ELSE Then(sidecar_dest(video_src_path, video_dest_path, Head(cands)),
            LAMBDA dst :
       Then(create_relative_symlink(st.fs, inb, Head(cands), dst, "none"),
            LAMBDA l :
       Then([fs |-> l.fs,
             linked_count |-> st.linked_count + (IF l.ok THEN 1 ELSE 0)],
            LAMBDA st1 :
       Then(Tail(cands), LAMBDA rest :
            link_each(st1, inb, video_src_path, video_dest_path, rest)))))

\* link_external_media: [fs, linked_count]; audio first, then subtitles
link_external_media(fs, inb, video_src_path, video_dest_path, external_files) ==
  Then(external_files.audio \o external_files.subtitles, LAMBDA cands :
       link_each([fs |-> fs, linked_count |-> 0], inb, video_src_path,
                 video_dest_path, cands))

-----------------------------------------------------------------------------
(* MediaProcessor (src/core/processor.py)                                  *)

InvalidChars == {"<", ">", ":", "\"", "/", "\\", "|", "?", "*"}

RECURSIVE rstrip(_)
rstrip(s) ==
  IF s # << >> /\ s[Len(s)] \in {".", " "}
  THEN rstrip(SubSeq(s, 1, Len(s) - 1))
  ELSE s

escape_filename(filename) ==
  rstrip([i \in 1..Len(filename) |->
            IF filename[i] \in InvalidChars THEN "_" ELSE filename[i]])

\* what the classifier says of one file.  season = None is NoNumber.
NoNumber == -1
MediaInfo(type, title, season, episode) ==
  [type |-> type, title |-> title, year |-> "1999", season |-> season,
   episode |-> episode]

Digit(n) == CASE n = 0 -> "0" [] n = 1 -> "1" [] n = 2 -> "2" [] n = 3 -> "3"
              [] n = 4 -> "4" [] n = 5 -> "5" [] n = 6 -> "6" [] n = 7 -> "7"
              [] n = 8 -> "8" [] OTHER -> "9"

\* f"{n:02d}"
fmt02(n) ==
  IF n < 10 THEN <<"0", Digit(n)>>
  ELSE IF n < 100 THEN <<Digit(n \div 10), Digit(n % 10)>>
  ELSE <<Digit(n \div 100), Digit((n \div 10) % 10), Digit(n % 10)>>

\* f"{safe_title} ({year})"
TitleYear(media_info) ==
  escape_filename(media_info.title) \o <<" (", media_info.year, ")">>

movie_dest_file(file_path, media_info) ==
  movies_dest_path
    \o <<[name |-> "", stem |-> TitleYear(media_info), ext |-> ""]>>
    \o <<File(TitleYear(media_info), basename(file_path).ext)>>

series_folder(media_info) ==
  series_dest_path \o <<[name |-> "", stem |-> TitleYear(media_info), ext |-> ""]>>

series_dest_file(file_path, media_info) ==
  series_folder(media_info)
    \o <<[name |-> "Season", stem |-> <<Digit(media_info.season)>>, ext |-> ""]>>
    \o <<File(escape_filename(media_info.title) \o <<" - S">>
                \o fmt02(media_info.season) \o <<"E">> \o fmt02(media_info.episode),
              basename(file_path).ext)>>

\* what TMDB and the operating system do during one call
MovieOutcomes == {"ok", "not_found", "no_details", "makedirs", "symlink", "raise"}
SeriesOutcomes == {"ok", "not_found", "makedirs", "symlink", "raise",
                   "no_series_details", "no_episode"}

LinkFault(o) == IF o \in {"makedirs", "symlink"} THEN o ELSE "none"

Result(fs, ok, raised) == [fs |-> fs, ok |-> ok, raised |-> raised]

\* steps 3 and 4 of both methods: the metadata file and the sidecars
finish_item(fs, inb, file_path, dest_file) ==
  Then(write_file(fs, nfo_of(dest_file)), LAMBDA fs1 :
  Then(find_external_audio_and_subtitles(fs1, inb, file_path),
       LAMBDA external_files :
       IF external_files.audio # << >> \/ external_files.subtitles # << >>
       THEN link_external_media(fs1, inb, file_path, dest_file, external_files).fs
       ELSE fs1))

process_movie(fs, inb, file_path, media_info, o) ==
  IF o \in {"not_found", "no_details"}
  THEN Result(mark_as_failed(fs, file_path, movies_dest_path), FALSE, FALSE)
  ELSE Then(movie_dest_file(file_path, media_info), LAMBDA dest_file :
       Then(create_relative_symlink(fs, inb, file_path, dest_file, LinkFault(o)),
            LAMBDA l :
            IF ~l.ok THEN Result(l.fs, FALSE, FALSE)
            ELSE IF o = "raise" THEN Result(l.fs, FALSE, TRUE)
            ELSE Result(finish_item(l.fs, inb, file_path, dest_file), TRUE, FALSE)))

process_series(fs, inb, file_path, media_info, o) ==
  IF media_info.season = NoNumber \/ media_info.episode = NoNumber
  THEN Result(mark_as_failed(fs, file_path, series_dest_path), FALSE, FALSE)
  ELSE IF o = "not_found"
  THEN Result(mark_as_failed(fs, file_path, series_dest_path), FALSE, FALSE)
  ELSE Then(series_dest_file(file_path, media_info), LAMBDA dest_file :
       Then(series_folder(media_info) \o <<File(<<"tvshow">>, "nfo")>>,
            LAMBDA series_nfo_path :
       Then(create_relative_symlink(fs, inb, file_path, dest_file, LinkFault(o)),
            LAMBDA l :
       Then(IF ~exists(l.fs, inb, series_nfo_path) /\ o # "no_series_details"
            THEN write_file(l.fs, series_nfo_path)
            ELSE l.fs,
            LAMBDA fs1 :
            IF ~l.ok THEN Result(l.fs, FALSE, FALSE)
            ELSE IF o = "raise" THEN Result(l.fs, FALSE, TRUE)
            ELSE IF o = "no_episode"
            THEN Result(mark_as_failed(fs1, file_path, series_dest_path), FALSE, FALSE)
            ELSE Result(finish_item(fs1, inb, file_path, dest_file), TRUE, FALSE)))))

\* the body of the loop over zip(file_paths, batch_info), for one item
process_item(fs, inb, file_path, media_info, o) ==
  IF media_info.type = "junk" THEN Result(fs, FALSE, TRUE)
  ELSE IF media_info.type = "movie" THEN process_movie(fs, inb, file_path, media_info, o)
  ELSE IF media_info.type = "series" THEN process_series(fs, inb, file_path, media_info, o)
  ELSE Result(fs, FALSE, FALSE)

\* the outcomes the whole-program model draws from
Outcomes(media_info) ==
  IF media_info.type = "movie" THEN {"ok", "not_found", "symlink", "raise"}
  ELSE IF media_info.type = "series" THEN {"ok", "no_episode"}
  ELSE {"ok"}

-----------------------------------------------------------------------------
(* cleanup_broken_links (src/utils/scanner.py)                             *)

extra_extensions == audio_extensions \cup subtitle_extensions

\* pass 1 without the os.path.exists test: the stems of all video entries
video_files_in_dest_all(fs, inb, dest_root) ==
  {basename(d).stem : d \in {f \in DOMAIN fs.dest :
      IsPrefix(dest_root, f) /\ IsVideo(f)}}

\* pass 1: the stems of the video entries of a root that resolve
video_files_in_dest(fs, inb, dest_root) ==
  {basename(d).stem : d \in {f \in DOMAIN fs.dest :
      IsPrefix(dest_root, f) /\ IsVideo(f) /\ exists(fs, inb, f)}}

\* "video_found" of the orphan check, first by equality alone, then as the
\* code has it: the stem equals a video stem or starts with one
video_found_exact(stems, base_name) == base_name \in stems
video_found(stems, base_name) == \E video_base \in stems : IsPrefix(video_base, base_name)

remove(st, path) ==
  [st EXCEPT !.fs.dest = Drop(@, {path}), !.removed_count = @ + 1]

\* the body of the loop over the files of one directory, for one file.
\* Removing a file that is gone raises, which the code logs and passes over.
sweep_file(st, inb, stems, file_path) ==
  LET c == basename(file_path) IN
  IF islink(st.fs, file_path) /\ ~exists(st.fs, inb, file_path)
  THEN IF IsVideo(file_path) /\ exists(st.fs, inb, nfo_of(file_path))
       THEN [remove(st, file_path) EXCEPT !.fs.dest = Drop(@, {nfo_of(file_path)})]
       ELSE remove(st, file_path)
  ELSE IF lower(c.ext) \in extra_extensions /\ ~video_found(stems, c.stem)
  THEN IF file_path \in DOMAIN st.fs.dest THEN remove(st, file_path) ELSE st
  ELSE IF lower(c.ext) = "nfo" /\ c.stem \notin stems
  THEN IF file_path \in DOMAIN st.fs.dest THEN remove(st, file_path) ELSE st
  ELSE st

RECURSIVE sweep_files(_, _, _, _)
sweep_files(st, inb, stems, files) ==
  IF files = << >> THEN st
  ELSE Then(sweep_file(st, inb, stems, Head(files)), LAMBDA st1 :
       Then(Tail(files), LAMBDA rest : sweep_files(st1, inb, stems, rest)))

listdir(fs, d) ==
  {f \in DOMAIN fs.dest : parent(f) = d} \cup {x \in fs.dirs : parent(x) = d}

\* a walk step that looks for an empty directory before handling its files
sweep_dir_first(st, inb, stems, dest_root, d) ==
  Then(SetToSeq({f \in DOMAIN st.fs.dest : parent(f) = d}), LAMBDA files :
  Then(IF listdir(st.fs, d) = {} /\ d # dest_root
       THEN [st EXCEPT !.fs.dirs = @ \ {d}]
       ELSE st, LAMBDA st1 :
       sweep_files(st1, inb, stems, files)))

\* one directory of the bottom-up walk: its files, then the directory itself
sweep_dir(st, inb, stems, dest_root, d) ==
  Then(SetToSeq({f \in DOMAIN st.fs.dest : parent(f) = d}), LAMBDA files :
  Then(sweep_files(st, inb, stems, files), LAMBDA st1 :
       IF listdir(st1.fs, d) = {} /\ d # dest_root
       THEN [st1 EXCEPT !.fs.dirs = @ \ {d}]
       ELSE st1))

RECURSIVE sweep_dirs(_, _, _, _, _)
sweep_dirs(st, inb, stems, dest_root, ds) ==
  IF ds = << >> THEN st
  ELSE Then(sweep_dir(st, inb, stems, dest_root, Head(ds)), LAMBDA st1 :
       Then(Tail(ds), LAMBDA rest : sweep_dirs(st1, inb, stems, dest_root, rest)))

\* os.walk(dest_root, topdown=False): children before their parent
MaxDepth == 3

\* a walk that visits a directory before its children
RECURSIVE top_down(_, _, _)
top_down(fs, dest_root, depth) ==
  IF depth = 0 THEN << >>
  ELSE top_down(fs, dest_root, depth - 1)
         \o SetToSeq({d \in fs.dirs \cup {dest_root} :
                        IsPrefix(dest_root, d) /\ Len(d) = depth})

RECURSIVE bottom_up(_, _, _)
bottom_up(fs, dest_root, depth) ==
  IF depth = 0 THEN << >>
  ELSE SetToSeq({d \in fs.dirs \cup {dest_root} :
                   IsPrefix(dest_root, d) /\ Len(d) = depth})
         \o bottom_up(fs, dest_root, depth - 1)

\* a sweep that leaves the journals alone
compact_keep(st, inb, dest_root) == st

\* step 3: the journal keeps the lines whose inbox path exists
compact(st, inb, dest_root) ==
  LET r == RootName(dest_root)
      Valid(l) == exists(st.fs, inb, normjoin(mixed_path, l))
  IN  [st EXCEPT !.fs.journal[r] = SelectSeq(@, Valid)]

sweep_root(st, inb, dest_root) ==
  Then(video_files_in_dest(st.fs, inb, dest_root), LAMBDA stems :
  Then(bottom_up(st.fs, dest_root, MaxDepth), LAMBDA ds :
  Then(sweep_dirs(st, inb, stems, dest_root, ds), LAMBDA st1 :
       compact(st1, inb, dest_root))))

\* cleanup_broken_links: [fs, removed_count]
cleanup_broken_links(fs, inb) ==
  Then(sweep_root([fs |-> fs, removed_count |-> 0], inb, movies_dest_path),
       LAMBDA st1 : sweep_root(st1, inb, series_dest_path))

-----------------------------------------------------------------------------
(* The classifier and the state the two writer threads share               *)

Fs == [dest |-> dest, dirs |-> dest_dirs, journal |-> journal]
SetFs(fs) == dest' = fs.dest /\ dest_dirs' = fs.dirs /\ journal' = fs.journal

Movie == MediaInfo("movie", <<"t">>, NoNumber, NoNumber)
Episode == MediaInfo("series", <<"t">>, 1, 1)
Other == MediaInfo("other", << >>, NoNumber, NoNumber)
\* an item of the classifier's list that is no dict: .get raises
Junk == MediaInfo("junk", << >>, NoNumber, NoNumber)
Identities == {Movie, Episode, Other, Junk}

\* what extract_media_info_batch can return for n file names: nothing, one
\* item per name, or a list of another length
LlmResults(n) ==
  {<< >>} \cup [1..n -> Identities] \cup {[i \in 1..(n + 1) |-> Other]}
    \cup (IF n > 1 THEN {[i \in 1..(n - 1) |-> Movie]} ELSE {})

\* "not batch_info or len(batch_info) != len(file_paths)", first without the
\* comparison of the lengths, then as the code has it
mismatch_empty_only(batch_info, file_paths) == batch_info = << >>
mismatch(batch_info, file_paths) ==
  batch_info = << >> \/ Len(batch_info) # Len(file_paths)

\* history: one classifier call, which of its files were processed or failed
\* already when it was made, and how many results it returned
Pending == -1
LlmCall(by, file_paths) ==
  [by |-> by, files |-> file_paths,
   known |-> {f \in SeqToSet(file_paths) :
                f \in get_processed_files(Fs, inbox) \cup get_failed_files(Fs)},
   n_results |-> Pending]
Answered(calls, batch_info) ==
  [calls EXCEPT ![Len(calls)].n_results = Len(batch_info)]

\* history: one sweep
SweepEntry(r) ==
  [before |-> Fs, inb |-> inbox, after |-> r.fs, removed_count |-> r.removed_count]

RefreshBoth(by) == <<[by |-> by, lib |-> "movies"], [by |-> by, lib |-> "series"]>>

-----------------------------------------------------------------------------
(* main() and run_initial_scan (src/main.py)                               *)

MainAt(pc) == [pc |-> pc, skip_files |-> {}, walk |-> << >>, parent_dir |-> "",
               file_paths |-> << >>, batch_info |-> << >>, i |-> 1,
               processed_count |-> 0]

NoEvent == PathEvent("none", NoPath)
ConsAt(pc) == [pc |-> pc, ev |-> NoEvent, valid_files |-> << >>,
               batch_info |-> << >>, i |-> 1, processed_any |-> FALSE,
               caught |-> 0]

\* MediaWatcherHandler.__init__, line 29; first a handler born with the flag set
FlagSetAtStart == TRUE
FlagAtStart == FALSE

\* setup_watcher: the consumer thread and the observer are started
setup_watcher ==
  /\ main.pc = "setup"
  /\ main' = MainAt("sweep")
  /\ cons' = ConsAt("idle")
  /\ UNCHANGED <<deb_vars, event_queue, fs_vars, is_initial_scan_complete,
                 hist_vars>>

\* run_initial_scan, line 25
scan_sweep ==
  /\ main.pc = "sweep"
  /\ SetFs(cleanup_broken_links(Fs, inbox).fs)
  /\ main' = [main EXCEPT !.pc = "index"]
  /\ UNCHANGED <<deb_vars, event_queue, inbox, is_initial_scan_complete, cons,
                 hist_vars>>

\* the order in which os.walk visits the inbox: the root, then its folders
WalkOrder == <<"", "A", "B">>

\* run_initial_scan, lines 30-37
scan_index ==
  /\ main.pc = "index"
  /\ main' = [main EXCEPT !.pc = "walk",
                          !.skip_files = get_processed_files(Fs, inbox)
                                           \cup get_failed_files(Fs),
                          !.walk = WalkOrder]
  /\ UNCHANGED <<deb_vars, event_queue, fs_vars, is_initial_scan_complete, cons,
                 hist_vars>>

IgnoreMarker(d) == [dir |-> d, stem |-> <<".ignore">>, ext |-> ""]

\* "dirs[:] = []": the folders beneath d are not visited
Prune(d, rest) ==
  LET Keep(x) == ~IsPrefix(FolderPath(d), FolderPath(x)) IN SelectSeq(rest, Keep)

\* the batch scan_mixed_folder_batches builds for folder d
folder_batch(inb, skip_files, d) ==
  SetToSeq({abspath(p) : p \in {q \in inb :
     q.dir = d /\ lower(q.ext) \in video_extensions /\ abspath(q) \notin skip_files}})

\* the generator walks on from the folders left to visit: [walk, parent_dir,
\* batch], with batch = << >> when the walk is over
RECURSIVE next_batch(_, _, _)
next_batch(inb, skip_files, todo) ==
  IF todo = << >> THEN [walk |-> << >>, parent_dir |-> "", batch |-> << >>]
  ELSE LET d == Head(todo)
           batch == folder_batch(inb, skip_files, d)
       IN  IF IgnoreMarker(d) \in inb \/ FolderPath(d) \in skip_files
           THEN next_batch(inb, skip_files, Prune(d, Tail(todo)))
           ELSE IF batch = << >>
           THEN next_batch(inb, skip_files, Tail(todo))
           ELSE [walk |-> Tail(todo), parent_dir |-> d, batch |-> batch]

\* the generator is resumed.  Either it yields the next batch and the
\* classifier is called for it (line 49), or the walk is over and the
\* libraries are refreshed (lines 68-73) before run_initial_scan returns.
scan_walk ==
  /\ main.pc = "walk"
  /\ LET y == next_batch(inbox, main.skip_files, main.walk) IN
     IF y.batch = << >>
     THEN /\ main' = MainAt("done")
          /\ refresh_log' = IF main.processed_count > 0
                            THEN refresh_log \o RefreshBoth("scan")
                            ELSE refresh_log
          /\ UNCHANGED llm_calls
     ELSE /\ main' = [main EXCEPT !.pc = "classify", !.walk = y.walk,
                                  !.parent_dir = y.parent_dir,
                                  !.file_paths = y.batch]
          /\ llm_calls' = Append(llm_calls, LlmCall("scan", y.batch))
          /\ UNCHANGED refresh_log
  /\ UNCHANGED <<deb_vars, event_queue, fs_vars, is_initial_scan_complete, cons,
                 sweep_log, call_log>>

\* the classifier answers; lines 51-54 on a mismatch
scan_classify(batch_info) ==
  /\ main.pc = "classify"
  /\ llm_calls' = Answered(llm_calls, batch_info)
  /\ IF mismatch(batch_info, main.file_paths)
     THEN /\ SetFs(mark_as_failed(Fs, FolderPath(main.parent_dir), movies_dest_path))
          /\ main' = [main EXCEPT !.pc = "walk", !.file_paths = << >>]
     ELSE /\ main' = [main EXCEPT !.pc = "items", !.batch_info = batch_info, !.i = 1]
          /\ UNCHANGED <<dest, dest_dirs, journal>>
  /\ UNCHANGED <<deb_vars, event_queue, inbox, is_initial_scan_complete, cons,
                 refresh_log, sweep_log, call_log>>

\* zip(file_paths, batch_info) stops with the shorter list
ZipLen(file_paths, batch_info) ==
  IF Len(file_paths) < Len(batch_info) THEN Len(file_paths) ELSE Len(batch_info)

\* lines 56-66 for the next pair of zip(file_paths, batch_info).  Nothing in
\* main() catches what a handler raises: the process ends.
scan_item(o) ==
  /\ main.pc = "items"
  /\ LET r == process_item(Fs, inbox, main.file_paths[main.i],
                           main.batch_info[main.i], o)
         last == main.i >= ZipLen(main.file_paths, main.batch_info)
     IN  /\ SetFs(r.fs)
         /\ main' = IF r.raised THEN [main EXCEPT !.pc = "crashed"]
                    ELSE [main EXCEPT
                            !.pc = IF last THEN "walk" ELSE "items",
                            !.file_paths = IF last THEN << >> ELSE @,
                            !.batch_info = IF last THEN << >> ELSE @,
                            !.i = IF last THEN 1 ELSE @ + 1,
                            !.processed_count = @ + (IF r.ok THEN 1 ELSE 0)]
  /\ UNCHANGED <<deb_vars, event_queue, inbox, is_initial_scan_complete, cons,
                 hist_vars>>

\* a main thread that sets the flag before it scans
set_flag_early ==
  /\ main.pc = "sweep"
  /\ is_initial_scan_complete' = TRUE
  /\ main' = MainAt("serving")
  /\ UNCHANGED <<deb_vars, event_queue, fs_vars, cons, hist_vars>>

\* main(), line 100
set_flag ==
  /\ main.pc = "done"
  /\ is_initial_scan_complete' = TRUE
  /\ main' = MainAt("serving")
  /\ UNCHANGED <<deb_vars, event_queue, fs_vars, cons, hist_vars>>

-----------------------------------------------------------------------------
(* process_events and its handlers (src/core/watcher.py)                   *)

\* the test at the top of the loop body; first a loop without it
GateAlwaysOpen == TRUE
Gate == is_initial_scan_complete

\* what "except Exception" of process_events does with a raising handler:
\* first a loop that ends, then the code's, which logs and goes on
OnRaiseDie == [ConsAt("dead") EXCEPT !.caught = cons.caught + 1]
OnRaise == [ConsAt("idle") EXCEPT !.caught = cons.caught + 1]

\* a handler returns, task_done, and the loop is at its top again
Returned == [ConsAt("idle") EXCEPT !.caught = cons.caught]

\* a loop that takes the event put last
cons_get_last ==
  /\ cons.pc = "idle"
  /\ Gate
  /\ event_queue # << >>
  /\ cons' = [cons EXCEPT !.pc = "handle", !.ev = event_queue[Len(event_queue)]]
  /\ event_queue' = SubSeq(event_queue, 1, Len(event_queue) - 1)
  /\ UNCHANGED <<deb_vars, fs_vars, main, is_initial_scan_complete, hist_vars>>

\* event_queue.get: the loop takes the next event, once the gate is open
cons_get ==
  /\ cons.pc = "idle"
  /\ Gate
  /\ event_queue # << >>
  /\ cons' = [cons EXCEPT !.pc = "handle", !.ev = Head(event_queue)]
  /\ event_queue' = Tail(event_queue)
  /\ UNCHANGED <<deb_vars, fs_vars, main, is_initial_scan_complete, hist_vars>>

\* a handler that classifies the files of the event as they are
process_batch_start_all ==
  /\ cons.pc = "handle"
  /\ cons.ev.type = "batch_created"
  /\ \E valid_files \in {SetToSeq({abspath(p) : p \in cons.ev.files})} :
         IF valid_files = << >>
         THEN /\ cons' = Returned
              /\ UNCHANGED llm_calls
         ELSE /\ cons' = [cons EXCEPT !.pc = "classify", !.valid_files = valid_files]
              /\ llm_calls' = Append(llm_calls, LlmCall("consumer", valid_files))
  /\ UNCHANGED <<deb_vars, event_queue, fs_vars, main, is_initial_scan_complete,
                 refresh_log, sweep_log, call_log>>

\* _process_batch up to the classifier call: lines 223-234
process_batch_start ==
  /\ cons.pc = "handle"
  /\ cons.ev.type = "batch_created"
  /\ \E valid_files \in {SetToSeq({abspath(p) : p \in cons.ev.files \cap inbox})} :
         IF valid_files = << >>
         THEN /\ cons' = Returned
              /\ UNCHANGED llm_calls
         ELSE /\ cons' = [cons EXCEPT !.pc = "classify", !.valid_files = valid_files]
              /\ llm_calls' = Append(llm_calls, LlmCall("consumer", valid_files))
  /\ UNCHANGED <<deb_vars, event_queue, fs_vars, main, is_initial_scan_complete,
                 refresh_log, sweep_log, call_log>>

\* the loop of lines 238-239
RECURSIVE mark_each(_, _)
mark_each(fs, file_paths) ==
  IF file_paths = << >> THEN fs
  ELSE Then(mark_as_failed(fs, Head(file_paths), movies_dest_path), LAMBDA fs1 :
       Then(Tail(file_paths), LAMBDA rest : mark_each(fs1, rest)))

\* the classifier answers; lines 236-240 on a mismatch
process_batch_classify(batch_info) ==
  /\ cons.pc = "classify"
  /\ llm_calls' = Answered(llm_calls, batch_info)
  /\ IF mismatch(batch_info, cons.valid_files)
     THEN /\ \E fs \in {mark_each(Fs, cons.valid_files)} : SetFs(fs)
          /\ cons' = Returned
     ELSE /\ cons' = [cons EXCEPT !.pc = "items", !.batch_info = batch_info, !.i = 1]
          /\ UNCHANGED <<dest, dest_dirs, journal>>
  /\ UNCHANGED <<deb_vars, event_queue, inbox, main, is_initial_scan_complete,
                 refresh_log, sweep_log, call_log>>

\* lines 243-253 for the next pair of zip(valid_files, batch_info)
process_batch_item(o) ==
  /\ cons.pc = "items"
  /\ \E r \in {process_item(Fs, inbox, cons.valid_files[cons.i],
                             cons.batch_info[cons.i], o)} :
     LET last == cons.i >= ZipLen(cons.valid_files, cons.batch_info)
     IN  /\ SetFs(r.fs)
         /\ cons' = IF r.raised THEN OnRaise
                    ELSE [cons EXCEPT
                            !.pc = IF last THEN "batch_end" ELSE "items",
                            !.i = @ + 1,
                            !.processed_any = @ \/ r.ok]
  /\ UNCHANGED <<deb_vars, event_queue, inbox, main, is_initial_scan_complete,
                 hist_vars>>

\* lines 255-260, and task_done
process_batch_end ==
  /\ cons.pc = "batch_end"
  /\ refresh_log' = IF cons.processed_any
                    THEN refresh_log \o RefreshBoth("consumer")
                    ELSE refresh_log
  /\ cons' = Returned
  /\ UNCHANGED <<deb_vars, event_queue, fs_vars, main, is_initial_scan_complete,
                 llm_calls, sweep_log, call_log>>

\* _handle_deletion
handle_deletion ==
  /\ cons.pc = "handle"
  /\ cons.ev.type = "deleted"
  /\ \E r \in {cleanup_broken_links(Fs, inbox)} : SetFs(r.fs)
  /\ cons' = Returned
  /\ UNCHANGED <<deb_vars, event_queue, inbox, main, is_initial_scan_complete,
                 hist_vars>>

\* the inbox videos whose stem the name of the sidecar starts with, in dir d
MatchingIn(inb, media, d) ==
  {v \in inb : /\ lower(v.ext) \in video_extensions
               /\ FolderPath(v.dir) = d
               /\ IsPrefix(v.stem, FileName(File(media.stem, media.ext)))}
MatchingBelow(inb, media, d) ==
  {v \in inb : /\ lower(v.ext) \in video_extensions
               /\ IsPrefix(d, FolderPath(v.dir))
               /\ IsPrefix(v.stem, FileName(File(media.stem, media.ext)))}

\* _find_matching_video: the videos the search can return (the first match
\* of os.walk from media_dir, else from its parent, up to the inbox root);
\* the empty set stands for None
RECURSIVE find_matching_video_from(_, _, _)
find_matching_video_from(inb, media, current_dir) ==
  IF ~IsPrefix(mixed_path, current_dir) THEN {}
  ELSE IF MatchingIn(inb, media, current_dir) # {}
       THEN MatchingIn(inb, media, current_dir)
  ELSE IF MatchingBelow(inb, media, current_dir) # {}
       THEN MatchingBelow(inb, media, current_dir)
  ELSE IF current_dir = << >> THEN {}
  ELSE find_matching_video_from(inb, media, parent(current_dir))
find_matching_video(inb, media) ==
  find_matching_video_from(inb, media, FolderPath(media.dir))

\* a search that returns the video links of the tree whatever they point at
find_dest_symlink_any(fs, src) ==
  {d \in DOMAIN fs.dest : IsVideo(d) /\ islink(fs, d)}

\* _find_dest_symlink: the links the search can return; movies before series
LinksTo(fs, dest_root, src) ==
  {d \in DOMAIN fs.dest : /\ IsPrefix(dest_root, d)
                          /\ IsVideo(d)
                          /\ islink(fs, d)
                          /\ resolve(fs, d) = src}
find_dest_symlink(fs, src) ==
  IF LinksTo(fs, movies_dest_path, src) # {}
  THEN LinksTo(fs, movies_dest_path, src)
  ELSE LinksTo(fs, series_dest_path, src)

\* _handle_external_media_added
handle_external_media_added ==
  /\ cons.pc = "handle"
  /\ cons.ev.type = "external_media_added"
  /\ \E videos \in {find_matching_video(inbox, cons.ev.path)} :
     IF videos = {}
     THEN UNCHANGED <<dest, dest_dirs, journal, refresh_log>>
     ELSE \E video_file \in videos :
       \E links \in {find_dest_symlink(Fs, abspath(video_file))} :
       IF links = {}
       THEN UNCHANGED <<dest, dest_dirs, journal, refresh_log>>
       ELSE \E dest_video \in links :
         \E external_files \in
              {find_external_audio_and_subtitles(Fs, inbox, abspath(video_file))} :
         \E l \in {link_external_media(Fs, inbox, abspath(video_file), dest_video,
                                       external_files)} :
             /\ SetFs(l.fs)
             /\ refresh_log' =
                  IF l.linked_count > 0
                  THEN Append(refresh_log,
                              [by |-> "consumer",
                               lib |-> IF IsPrefix(movies_dest_path, dest_video)
                                       THEN "movies" ELSE "series"])
                  ELSE refresh_log
  /\ cons' = Returned
  /\ UNCHANGED <<deb_vars, event_queue, inbox, main, is_initial_scan_complete,
                 llm_calls, sweep_log, call_log>>

-----------------------------------------------------------------------------
(* The whole program: the observer, the timers, the start-up scan and the  *)
(* event loop, with time abstracted (a timer may expire at any moment)     *)

MaxEvents == 2

MainPaths ==
  { [dir |-> "A", stem |-> <<"a">>, ext |-> "mkv"],
    [dir |-> "A", stem |-> <<"b">>, ext |-> "mkv"],
    [dir |-> "A", stem |-> <<"a">>, ext |-> "mka"] }

\* the inbox at start-up: empty, the two videos, or all three files
InitInboxes ==
  { {}, {p \in MainPaths : p.ext = "mkv"}, MainPaths }

\* what an earlier run can have left behind: nothing, a linked movie, or a
\* journal entry
InitTrees ==
  { EmptyFs,
    process_movie(EmptyFs, MainPaths,
                  abspath([dir |-> "A", stem |-> <<"a">>, ext |-> "mkv"]),
                  Movie, "ok").fs,
    mark_as_failed(EmptyFs, abspath([dir |-> "A", stem |-> <<"b">>, ext |-> "mkv"]),
                   series_dest_path) }

Init ==
  /\ InitDebouncer
  /\ timed = FALSE
  /\ inbox \in InitInboxes
  /\ \E fs \in InitTrees :
       dest = fs.dest /\ dest_dirs = fs.dirs /\ journal = fs.journal
  /\ main = MainAt("setup")
  /\ is_initial_scan_complete = FlagAtStart
  /\ cons = ConsAt("not_started")
  /\ llm_calls = << >>
  /\ refresh_log = << >>
  /\ sweep_log = << >>
  /\ call_log = << >>

\* the process runs; the observer delivers notifications once it is started
Alive == main.pc # "crashed"
Watching == Alive /\ main.pc # "setup" /\ n_notif < MaxEvents

FsCreate(p) ==
  /\ Watching
  /\ p \notin inbox
  /\ inbox' = inbox \cup {p}
  /\ on_created(FALSE, p)
  /\ UNCHANGED <<dest, dest_dirs, journal, run_vars>>

FsDelete(p) ==
  /\ Watching
  /\ p \in inbox
  /\ inbox' = inbox \ {p}
  /\ on_deleted(FALSE, p)
  /\ UNCHANGED <<dest, dest_dirs, journal, run_vars>>

Next ==
  \/ setup_watcher
  \/ scan_sweep
  \/ scan_index
  \/ scan_walk
  \/ \E n \in 1..2 : \E batch_info \in LlmResults(n) :
       Len(main.file_paths) = n /\ scan_classify(batch_info)
  \/ \E o \in MovieOutcomes \cup SeriesOutcomes :
       /\ main.pc = "items"
       /\ o \in Outcomes(main.batch_info[main.i])
       /\ scan_item(o)
  \/ set_flag
  \/ \E p \in MainPaths : FsCreate(p)
  \/ \E p \in MainPaths : FsDelete(p)
  \/ Alive /\ queue_for_batching /\ UNCHANGED <<fs_vars, run_vars>>
  \/ \E i \in 1..Len(timers) :
       Alive /\ TimerExpire(i) /\ UNCHANGED <<fs_vars, run_vars>>
  \/ \E i \in 1..Len(timers) :
       Alive /\ trigger_batch(i) /\ UNCHANGED <<fs_vars, run_vars>>
  \/ Alive /\ cons_get
  \/ Alive /\ process_batch_start
  \/ \E n \in 1..2 : \E batch_info \in LlmResults(n) :
       Alive /\ Len(cons.valid_files) = n /\ process_batch_classify(batch_info)
  \/ \E o \in MovieOutcomes \cup SeriesOutcomes :
       /\ Alive
       /\ cons.pc = "items"
       /\ o \in Outcomes(cons.batch_info[cons.i])
       /\ process_batch_item(o)
  \/ Alive /\ process_batch_end
  \/ Alive /\ handle_deletion
  \/ Alive /\ handle_external_media_added

Spec == Init /\ [][Next]_vars

-----------------------------------------------------------------------------
(* The event loop in steady state: the initial scan of an empty inbox has  *)
(* returned and the flag is set.  The consumer thread is scheduled again   *)
(* and again, and the classifier and the handlers return.                  *)

LoopInit ==
  /\ InitDebouncer
  /\ timed = FALSE
  /\ inbox = {}
  /\ dest = EmptyFs.dest /\ dest_dirs = EmptyFs.dirs /\ journal = EmptyFs.journal
  /\ main = MainAt("serving")
  /\ is_initial_scan_complete = TRUE
  /\ cons = ConsAt("idle")
  /\ llm_calls = << >>
  /\ refresh_log = << >>
  /\ sweep_log = << >>
  /\ call_log = << >>

ConsumerNext ==
  \/ cons_get
  \/ process_batch_start
  \/ \E n \in 1..2 : \E batch_info \in LlmResults(n) :
       Len(cons.valid_files) = n /\ process_batch_classify(batch_info)
  \/ \E o \in MovieOutcomes \cup SeriesOutcomes :
       /\ cons.pc = "items"
       /\ o \in Outcomes(cons.batch_info[cons.i])
       /\ process_batch_item(o)
  \/ process_batch_end
  \/ handle_deletion
  \/ handle_external_media_added

LoopNext ==
  \/ \E p \in MainPaths : FsCreate(p)
  \/ \E p \in MainPaths : FsDelete(p)
  \/ queue_for_batching /\ UNCHANGED <<fs_vars, run_vars>>
  \/ \E i \in 1..Len(timers) : TimerExpire(i) /\ UNCHANGED <<fs_vars, run_vars>>
  \/ \E i \in 1..Len(timers) : trigger_batch(i) /\ UNCHANGED <<fs_vars, run_vars>>
  \/ ConsumerNext

FairLoop == LoopInit /\ [][LoopNext]_vars /\ WF_vars(ConsumerNext)

-----------------------------------------------------------------------------
(* Delivery: the initial scan of an empty inbox has returned and main() is  *)
(* about to set the flag.  The observer thread, every timer thread and the *)
(* consumer thread are scheduled again and again.                          *)

DeliverInit ==
  /\ InitDebouncer
  /\ timed = FALSE
  /\ inbox = {}
  /\ dest = EmptyFs.dest /\ dest_dirs = EmptyFs.dirs /\ journal = EmptyFs.journal
  /\ main = MainAt("done")
  /\ is_initial_scan_complete = FlagAtStart
  /\ cons = ConsAt("idle")
  /\ llm_calls = << >>
  /\ refresh_log = << >>
  /\ sweep_log = << >>
  /\ call_log = << >>

DeliverNext ==
  \/ set_flag
  \/ LoopNext

FairDelivery ==
  /\ DeliverInit /\ [][DeliverNext]_vars
  /\ WF_vars(ConsumerNext)
  /\ WF_vars(queue_for_batching /\ UNCHANGED <<fs_vars, run_vars>>)
  /\ \A i \in 1..MaxEvents :
       /\ WF_vars(TimerExpire(i) /\ UNCHANGED <<fs_vars, run_vars>>)
       /\ WF_vars(trigger_batch(i) /\ UNCHANGED <<fs_vars, run_vars>>)

-----------------------------------------------------------------------------
(* cleanup_broken_links on its own: the destination tree and the inbox are *)
(* drawn from the entries the linking step produces, sources go away, and  *)
(* every sweep is recorded with the tree it found and the tree it left.    *)

MaxSweeps == 2

SweepPaths ==
  {[dir |-> "A", stem |-> <<"a">>, ext |-> "mkv"],
   [dir |-> "A", stem |-> <<"a">>, ext |-> "mka"],
   [dir |-> "A", stem |-> <<"a", "b">>, ext |-> "ass"],
   [dir |-> "A", stem |-> <<"b">>, ext |-> "mkv"]}

\* the link create_relative_symlink writes at dst for the inbox file p
LinkTo(p, dst) == [path |-> dst, entry |-> LinkEntry(relpath(abspath(p), parent(dst)))]

SweepMovie == movie_dest_file(abspath([dir |-> "A", stem |-> <<"a">>, ext |-> "mkv"]), Movie)
SweepEpisode ==
  series_dest_file(abspath([dir |-> "A", stem |-> <<"b">>, ext |-> "mkv"]), Episode)

\* the subtitle of the same episode of a series of the same title and another
\* year
SweepStray ==
  parent(series_dest_file(abspath([dir |-> "A", stem |-> <<"b">>, ext |-> "mkv"]),
                          [Episode EXCEPT !.year = "2005"]))
    \o <<File(basename(SweepEpisode).stem, "ass")>>

\* a movie with its metadata file and two sidecars (one named as the video,
\* one with a suffix), and an episode with its metadata file and a subtitle
SweepEntries ==
  {LinkTo([dir |-> "A", stem |-> <<"a">>, ext |-> "mkv"], SweepMovie),
   [path |-> nfo_of(SweepMovie), entry |-> FileEntry],
   LinkTo([dir |-> "A", stem |-> <<"a">>, ext |-> "mka"],
          sidecar_dest(abspath([dir |-> "A", stem |-> <<"a">>, ext |-> "mkv"]),
                       SweepMovie,
                       abspath([dir |-> "A", stem |-> <<"a">>, ext |-> "mka"]))),
   LinkTo([dir |-> "A", stem |-> <<"a", "b">>, ext |-> "ass"],
          sidecar_dest(abspath([dir |-> "A", stem |-> <<"a">>, ext |-> "mkv"]),
                       SweepMovie,
                       abspath([dir |-> "A", stem |-> <<"a", "b">>, ext |-> "ass"]))),
   LinkTo([dir |-> "A", stem |-> <<"b">>, ext |-> "mkv"], SweepEpisode),
   [path |-> nfo_of(SweepEpisode), entry |-> FileEntry],
   \* a subtitle file beside the episode that is a copy, not a link
   [path |-> parent(SweepEpisode) \o <<File(basename(SweepEpisode).stem, "ass")>>,
    entry |-> FileEntry],
   \* a subtitle named as the episode, alone in the season directory of the
   \* series of the same title and another year
   LinkTo([dir |-> "A", stem |-> <<"a", "b">>, ext |-> "ass"], SweepStray)}

\* the tree that holds the entries E, with the directories makedirs made
TreeOf(E) ==
  [dest |-> [f \in {e.path : e \in E} |-> (CHOOSE e \in E : e.path = f).entry],
   dirs |-> UNION {{SubSeq(e.path, 1, k) : k \in 2..(Len(e.path) - 1)} : e \in E},
   journal |-> EmptyFs.journal]

SweepInit ==
  /\ InitDebouncer
  /\ timed = FALSE
  /\ inbox \in SUBSET SweepPaths
  /\ \E E \in SUBSET SweepEntries :
       /\ dest = TreeOf(E).dest
       /\ dest_dirs = TreeOf(E).dirs
       /\ journal = TreeOf(E).journal
  /\ event_queue = << >>
  /\ main = MainAt("serving")
  /\ is_initial_scan_complete = TRUE
  /\ cons = ConsAt("idle")
  /\ llm_calls = << >>
  /\ refresh_log = << >>
  /\ sweep_log = << >>
  /\ call_log = << >>

\* one call of cleanup_broken_links
sweep ==
  /\ Len(sweep_log) < MaxSweeps
  /\ \E r \in {cleanup_broken_links(Fs, inbox)} :
       /\ SetFs(r.fs)
       /\ sweep_log' = Append(sweep_log, SweepEntry(r))
  /\ UNCHANGED <<deb_vars, event_queue, inbox, main, is_initial_scan_complete, cons,
                 llm_calls, refresh_log, call_log>>

\* the user removes a file of the inbox
source_removed(p) ==
  /\ p \in inbox
  /\ inbox' = inbox \ {p}
  /\ UNCHANGED <<deb_vars, event_queue, dest, dest_dirs, journal, run_vars>>

SweepNext ==
  \/ sweep
  \/ \E p \in SweepPaths : source_removed(p)

SpecSweep == SweepInit /\ [][SweepNext]_vars

-----------------------------------------------------------------------------
(* create_relative_symlink and link_external_media on their own: the       *)
(* inbox and the tree are drawn, the functions are called with drawn       *)
(* arguments, sources go away, and every call is recorded.                 *)

MaxCalls == 2

LinkVideo == [dir |-> "A", stem |-> <<"a">>, ext |-> "mkv"]

\* the video, an audio track named as the video, a subtitle whose name
\* extends the name of the video, and a subtitle named otherwise
LinkPaths ==
  {LinkVideo,
   [dir |-> "A", stem |-> <<"a">>, ext |-> "mka"],
   [dir |-> "A", stem |-> <<"a", "b">>, ext |-> "ass"],
   [dir |-> "A", stem |-> <<"c">>, ext |-> "ass"]}

LinkDest == movie_dest_file(abspath(LinkVideo), Movie)

\* the destinations create_relative_symlink is called with
LinkDsts ==
  {LinkDest,
   sidecar_dest(abspath(LinkVideo), LinkDest,
                abspath([dir |-> "A", stem |-> <<"a">>, ext |-> "mka"]))}

\* the tree before the calls: empty, a plain file at the destination of the
\* video, or a link there
LinkTrees ==
  {EmptyFs,
   TreeOf({[path |-> LinkDest, entry |-> FileEntry]}),
   TreeOf({LinkTo(LinkVideo, LinkDest)})}

\* the external_files dictionaries link_external_media is called with
ExternalFiles(inb) ==
  {[audio |-> SetToSeq({abspath(p) : p \in A}),
    subtitles |-> SetToSeq({abspath(p) : p \in S})] :
     A \in SUBSET {p \in inb : lower(p.ext) \in audio_extensions},
     S \in SUBSET {p \in inb : lower(p.ext) \in subtitle_extensions}}

\* a call: its arguments, the tree and the inbox it found, the tree it left
\* and what it returned
CallEntry(op, src, dst, fault, cands, after, result) ==
  [op |-> op, before |-> Fs, inb |-> inbox, src |-> src, dst |-> dst,
   fault |-> fault, cands |-> cands, after |-> after, result |-> result]

LinkInit ==
  /\ InitDebouncer
  /\ timed = FALSE
  /\ inbox \in SUBSET LinkPaths
  /\ \E fs \in LinkTrees :
       dest = fs.dest /\ dest_dirs = fs.dirs /\ journal = fs.journal
  /\ event_queue = << >>
  /\ main = MainAt("serving")
  /\ is_initial_scan_complete = TRUE
  /\ cons = ConsAt("idle")
  /\ llm_calls = << >>
  /\ refresh_log = << >>
  /\ sweep_log = << >>
  /\ call_log = << >>

\* one call of create_relative_symlink(src, dst)
link(src, dst, fault) ==
  /\ Len(call_log) < MaxCalls
  /\ \E l \in {create_relative_symlink(Fs, inbox, src, dst, fault)} :
       /\ SetFs(l.fs)
       /\ call_log' = Append(call_log,
            CallEntry("create_relative_symlink", src, dst, fault, << >>, l.fs, l.ok))
  /\ UNCHANGED <<deb_vars, event_queue, inbox, main, is_initial_scan_complete, cons,
                 llm_calls, refresh_log, sweep_log>>

\* one call of link_external_media for the video and its destination
link_media(external_files) ==
  /\ Len(call_log) < MaxCalls
  /\ \E r \in {link_external_media(Fs, inbox, abspath(LinkVideo), LinkDest,
                                   external_files)} :
       /\ SetFs(r.fs)
       /\ call_log' = Append(call_log,
            CallEntry("link_external_media", abspath(LinkVideo), LinkDest, "none",
                      external_files.audio \o external_files.subtitles,
                      r.fs, r.linked_count))
  /\ UNCHANGED <<deb_vars, event_queue, inbox, main, is_initial_scan_complete, cons,
                 llm_calls, refresh_log, sweep_log>>

LinkNext ==
  \/ \E p \in {q \in LinkPaths : lower(q.ext) \notin subtitle_extensions} :
       \E dst \in LinkDsts : \E fault \in {"none", "symlink"} :
         link(abspath(p), dst, fault)
  \/ \E external_files \in ExternalFiles(inbox) : link_media(external_files)
  \/ \E p \in {q \in LinkPaths : lower(q.ext) \notin subtitle_extensions} :
       source_removed(p)

SpecLink == LinkInit /\ [][LinkNext]_vars

-----------------------------------------------------------------------------
(* The failure journals: mark_as_failed, the per-item processing and the   *)
(* sweep are called in any order on a drawn inbox while sources go away;   *)
(* every call is recorded.                                                 *)

JournalPaths ==
  {[dir |-> "A", stem |-> <<"a">>, ext |-> "mkv"],
   [dir |-> "A", stem |-> <<"b">>, ext |-> "mkv"]}

JournalInit ==
  /\ InitDebouncer
  /\ timed = FALSE
  /\ inbox \in SUBSET JournalPaths
  /\ dest = EmptyFs.dest /\ dest_dirs = EmptyFs.dirs /\ journal = EmptyFs.journal
  /\ event_queue = << >>
  /\ main = MainAt("serving")
  /\ is_initial_scan_complete = TRUE
  /\ cons = ConsAt("idle")
  /\ llm_calls = << >>
  /\ refresh_log = << >>
  /\ sweep_log = << >>
  /\ call_log = << >>

\* one call of mark_as_failed(file_path, base_dest_path, mixed_path)
mark(file_path, base_dest_path) ==
  /\ Len(call_log) < MaxCalls
  /\ \E fs \in {mark_as_failed(Fs, file_path, base_dest_path)} :
       /\ SetFs(fs)
       /\ call_log' = Append(call_log,
            CallEntry("mark_as_failed", file_path, base_dest_path, "none", << >>,
                      fs, TRUE))
  /\ UNCHANGED <<deb_vars, event_queue, inbox, main, is_initial_scan_complete, cons,
                 llm_calls, refresh_log, sweep_log>>

\* one call of process_movie or process_series for a file of the inbox
process(p, media_info, o) ==
  /\ Len(call_log) < MaxCalls
  /\ p \in inbox
  /\ \E r \in {process_item(Fs, inbox, abspath(p), media_info, o)} :
       /\ SetFs(r.fs)
       /\ call_log' = Append(call_log,
            CallEntry("process_item", abspath(p),
                      IF media_info.type = "movie"
                      THEN movie_dest_file(abspath(p), media_info)
                      ELSE series_dest_file(abspath(p), media_info),
                      o, << >>, r.fs, r.ok))
  /\ UNCHANGED <<deb_vars, event_queue, inbox, main, is_initial_scan_complete, cons,
                 llm_calls, refresh_log, sweep_log>>

JournalNext ==
  \/ \E p \in JournalPaths : \E root \in {movies_dest_path, series_dest_path} :
       mark(abspath(p), root)
  \/ \E p \in JournalPaths : \E media_info \in {Movie, Episode} :
       \E o \in {"ok", "not_found"} : process(p, media_info, o)
  \/ sweep
  \/ \E p \in JournalPaths : source_removed(p)

SpecJournal == JournalInit /\ [][JournalNext]_vars

-----------------------------------------------------------------------------
(* process_movie and process_series on their own: two videos that the      *)
(* classifier may give the same identity and an audio track of the first   *)
(* are processed, with every answer of TMDB and of the operating system,   *)
(* while sources go away.                                                  *)

ProcVideos ==
  {[dir |-> "A", stem |-> <<"a">>, ext |-> "mkv"],
   [dir |-> "A", stem |-> <<"b">>, ext |-> "mkv"]}

ProcInit ==
  /\ InitDebouncer
  /\ timed = FALSE
  /\ \E V \in SUBSET ProcVideos :
       inbox = V \cup {[dir |-> "A", stem |-> <<"a">>, ext |-> "mka"]}
  /\ dest = EmptyFs.dest /\ dest_dirs = EmptyFs.dirs /\ journal = EmptyFs.journal
  /\ event_queue = << >>
  /\ main = MainAt("serving")
  /\ is_initial_scan_complete = TRUE
  /\ cons = ConsAt("idle")
  /\ llm_calls = << >>
  /\ refresh_log = << >>
  /\ sweep_log = << >>
  /\ call_log = << >>

ProcNext ==
  \/ \E p \in ProcVideos : \E o \in MovieOutcomes : process(p, Movie, o)
  \/ \E p \in ProcVideos : \E o \in SeriesOutcomes : process(p, Episode, o)
  \/ \E p \in ProcVideos : source_removed(p)

SpecProcess == ProcInit /\ [][ProcNext]_vars

-----------------------------------------------------------------------------
(* get_processed_files on its own: called on the drawn trees and inboxes   *)
(* of the sweep model while sources go away.                               *)

\* one call of get_processed_files(movies_path, series_path)
index ==
  /\ Len(call_log) < MaxCalls
  /\ call_log' = Append(call_log,
       CallEntry("get_processed_files", << >>, << >>, "none", << >>, Fs,
                 get_processed_files(Fs, inbox)))
  /\ UNCHANGED <<deb_vars, event_queue, fs_vars, main, is_initial_scan_complete, cons,
                 llm_calls, refresh_log, sweep_log>>

IndexNext ==
  \/ index
  \/ \E p \in SweepPaths : source_removed(p)

SpecIndex == SweepInit /\ [][IndexNext]_vars

-----------------------------------------------------------------------------
(* Deletion of a linked video: three episodes of one season have been      *)
(* processed with their audio tracks, the watcher is serving, and sources  *)
(* of videos are removed one after the other.                              *)

DelVideos ==
  {[dir |-> "A", stem |-> <<"x">>, ext |-> "mkv"],
   [dir |-> "A", stem |-> <<"y">>, ext |-> "mkv"],
   [dir |-> "A", stem |-> <<"z">>, ext |-> "mkv"]}

\* the audio track that lies beside the video v in the inbox
DelAudio(v) == [v EXCEPT !.ext = "mka"]

\* what the classifier answers for v: episodes 1, 10 and 100 of season 1
DelInfo(v) ==
  MediaInfo("series", <<"t">>, 1,
            CASE v.stem = <<"x">> -> 1 [] v.stem = <<"y">> -> 10 [] OTHER -> 100)

\* the loop over zip(file_paths, batch_info) with every call succeeding
RECURSIVE process_all(_, _, _)
process_all(fs, inb, file_paths) ==
  IF file_paths = << >> THEN fs
  ELSE Then(process_item(fs, inb, abspath(Head(file_paths)),
                         DelInfo(Head(file_paths)), "ok").fs,
            LAMBDA fs1 : process_all(fs1, inb, Tail(file_paths)))

\* a file of the inbox that is no media file
DelNote == [dir |-> "A", stem |-> <<"x">>, ext |-> "txt"]

\* the journals before the episodes were processed: empty, or with the line
\* of a file that failed once and is no longer in the inbox
DelJournals ==
  {EmptyFs,
   mark_as_failed(EmptyFs, abspath([dir |-> "A", stem |-> <<"w">>, ext |-> "mkv"]),
                  movies_dest_path)}

DelInit ==
  /\ InitDebouncer
  /\ timed = FALSE
  /\ \E V \in SUBSET DelVideos : \E W \in SUBSET V :
       inbox = V \cup {DelAudio(v) : v \in W} \cup {DelNote}
  /\ \E fs0 \in DelJournals :
       \E fs \in {process_all(fs0, inbox,
                              SetToSeq({v \in DelVideos : v \in inbox}))} :
         dest = fs.dest /\ dest_dirs = fs.dirs /\ journal = fs.journal
  /\ main = MainAt("serving")
  /\ is_initial_scan_complete = TRUE
  /\ cons = ConsAt("idle")
  /\ llm_calls = << >>
  /\ refresh_log = << >>
  /\ sweep_log = << >>
  /\ call_log = << >>

DelNext ==
  \/ \E p \in DelVideos \cup {DelAudio(v) : v \in DelVideos} \cup {DelNote} :
       FsDelete(p)
  \/ cons_get
  \/ handle_deletion

SpecDeletion == DelInit /\ [][DelNext]_vars

-----------------------------------------------------------------------------
(* An inbox with .ignore markers: the initial scan walks it, and videos    *)
(* are created in it while the watcher runs.                               *)

IgnorePaths ==
  { [dir |-> "A", stem |-> <<"a">>, ext |-> "mkv"],
    [dir |-> "B", stem |-> <<"b">>, ext |-> "mkv"] }
IgnoreMarkers == {IgnoreMarker(""), IgnoreMarker("A")}
IgnoreResults == {<< >>, <<Movie>>}

IgnoreInit ==
  /\ InitDebouncer
  /\ timed = FALSE
  /\ \E V \in SUBSET IgnorePaths, M \in SUBSET IgnoreMarkers : inbox = V \cup M
  /\ dest = EmptyFs.dest /\ dest_dirs = EmptyFs.dirs /\ journal = EmptyFs.journal
  /\ main = MainAt("setup")
  /\ is_initial_scan_complete = FlagAtStart
  /\ cons = ConsAt("not_started")
  /\ llm_calls = << >>
  /\ refresh_log = << >>
  /\ sweep_log = << >>
  /\ call_log = << >>

IgnoreNext ==
  \/ setup_watcher
  \/ scan_sweep
  \/ scan_index
  \/ scan_walk
  \/ \E batch_info \in IgnoreResults : scan_classify(batch_info)
  \/ scan_item("ok")
  \/ set_flag
  \/ \E p \in IgnorePaths : FsCreate(p)
  \/ queue_for_batching /\ UNCHANGED <<fs_vars, run_vars>>
  \/ \E i \in 1..Len(timers) : TimerExpire(i) /\ UNCHANGED <<fs_vars, run_vars>>
  \/ \E i \in 1..Len(timers) : trigger_batch(i) /\ UNCHANGED <<fs_vars, run_vars>>
  \/ cons_get
  \/ process_batch_start
  \/ \E batch_info \in IgnoreResults : process_batch_classify(batch_info)
  \/ process_batch_item("ok")
  \/ process_batch_end

SpecIgnore == IgnoreInit /\ [][IgnoreNext]_vars

-----------------------------------------------------------------------------
(* A batch that waits in the queue while files of it are deleted.          *)

RevPaths ==
  { [dir |-> "A", stem |-> <<"a">>, ext |-> "mkv"],
    [dir |-> "A", stem |-> <<"b">>, ext |-> "mkv"] }

RevInit ==
  /\ now = 0 /\ timed = FALSE
  /\ batch_lock = "free"
  /\ obs = IdleObs
  /\ pending_batches = << >>
  /\ timers = << >>
  /\ n_notif = 0
  /\ ins_log = << >>
  /\ batch_log = << >>
  /\ \E files \in SUBSET RevPaths :
       files # {} /\ event_queue = <<BatchEvent("A", files)>>
  /\ inbox = RevPaths
  /\ dest = EmptyFs.dest /\ dest_dirs = EmptyFs.dirs /\ journal = EmptyFs.journal
  /\ main = MainAt("serving")
  /\ is_initial_scan_complete = TRUE
  /\ cons = ConsAt("idle")
  /\ llm_calls = << >>
  /\ refresh_log = << >>
  /\ sweep_log = << >>
  /\ call_log = << >>

RevNext ==
  \/ \E p \in RevPaths : FsDelete(p)
  \/ cons_get
  \/ process_batch_start
  \/ \E n \in 1..2 : \E batch_info \in LlmResults(n) :
       Len(cons.valid_files) = n /\ process_batch_classify(batch_info)
  \/ \E o \in MovieOutcomes \cup SeriesOutcomes :
       /\ cons.pc = "items"
       /\ o \in Outcomes(cons.batch_info[cons.i])
       /\ process_batch_item(o)
  \/ process_batch_end
  \/ handle_deletion

SpecRevalidate == RevInit /\ [][RevNext]_vars

-----------------------------------------------------------------------------
(* Renames inside the inbox: a movie and its audio track have been linked, *)
(* the watcher is serving, and the video or the audio track is renamed.    *)

MoveVideo == [dir |-> "A", stem |-> <<"a">>, ext |-> "mkv"]
MoveAudio == [dir |-> "A", stem |-> <<"a">>, ext |-> "mka"]

\* <<source, destination>>: the video gets another name, the audio track a
\* name that extends the name of the video
MovePairs ==
  { <<MoveVideo, [dir |-> "A", stem |-> <<"b">>, ext |-> "mkv"]>>,
    <<MoveAudio, [dir |-> "A", stem |-> <<"a", "b">>, ext |-> "mka"]>> }

FsMove(src, dst) ==
  /\ Watching
  /\ src \in inbox /\ dst \notin inbox
  /\ inbox' = (inbox \ {src}) \cup {dst}
  /\ on_moved(FALSE, src, dst)
  /\ UNCHANGED <<dest, dest_dirs, journal, run_vars>>

MoveInit ==
  /\ InitDebouncer
  /\ timed = FALSE
  /\ inbox \in {{MoveVideo}, {MoveVideo, MoveAudio}}
  /\ \E fs \in {process_item(EmptyFs, inbox, abspath(MoveVideo), Movie, "ok").fs} :
       dest = fs.dest /\ dest_dirs = fs.dirs /\ journal = fs.journal
  /\ main = MainAt("serving")
  /\ is_initial_scan_complete = TRUE
  /\ cons = ConsAt("idle")
  /\ llm_calls = << >>
  /\ refresh_log = << >>
  /\ sweep_log = << >>
  /\ call_log = << >>

MoveNext ==
  \/ \E m \in MovePairs : FsMove(m[1], m[2])
  \/ queue_for_batching /\ UNCHANGED <<fs_vars, run_vars>>
  \/ \E i \in 1..Len(timers) : TimerExpire(i) /\ UNCHANGED <<fs_vars, run_vars>>
  \/ \E i \in 1..Len(timers) : trigger_batch(i) /\ UNCHANGED <<fs_vars, run_vars>>
  \/ cons_get
  \/ process_batch_start
  \/ \E batch_info \in LlmResults(1) : process_batch_classify(batch_info)
  \/ \E o \in MovieOutcomes \cup SeriesOutcomes :
       /\ cons.pc = "items"
       /\ o \in Outcomes(cons.batch_info[cons.i])
       /\ process_batch_item(o)
  \/ process_batch_end
  \/ handle_deletion
  \/ handle_external_media_added

SpecMove == MoveInit /\ [][MoveNext]_vars

-----------------------------------------------------------------------------
(* find_external_audio_and_subtitles and link_external_media for the       *)
(* videos of a folder: the inbox is drawn, the videos are linked, the      *)
(* functions are called and every call is recorded.                        *)

\* two videos of folder A, the stem of one extending the stem of the other
FindVideos ==
  {[dir |-> "A", stem |-> <<"a">>, ext |-> "mkv"],
   [dir |-> "A", stem |-> <<"a", "b">>, ext |-> "mkv"]}

\* audio tracks of the same name beside the video and in the sibling folder,
\* a subtitle named as the second video, a subtitle in the inbox root, and a
\* subtitle named otherwise
FindSidecars ==
  {[dir |-> "A", stem |-> <<"a">>, ext |-> "mka"],
   [dir |-> "B", stem |-> <<"a">>, ext |-> "mka"],
   [dir |-> "A", stem |-> <<"a", "b">>, ext |-> "ass"],
   [dir |-> "", stem |-> <<"a">>, ext |-> "ass"],
   [dir |-> "A", stem |-> <<"c">>, ext |-> "ass"]}

FindInfo(v) == MediaInfo("series", <<"t">>, 1, Len(v.stem))
FindDest(v) == series_dest_file(abspath(v), FindInfo(v))

FindInit ==
  /\ InitDebouncer
  /\ timed = FALSE
  /\ \E V \in SUBSET FindVideos, S \in SUBSET FindSidecars : inbox = V \cup S
  /\ \E fs \in {TreeOf({LinkTo(v, FindDest(v)) : v \in FindVideos \cap inbox})} :
       dest = fs.dest /\ dest_dirs = fs.dirs /\ journal = fs.journal
  /\ main = MainAt("serving")
  /\ is_initial_scan_complete = TRUE
  /\ cons = ConsAt("idle")
  /\ llm_calls = << >>
  /\ refresh_log = << >>
  /\ sweep_log = << >>
  /\ call_log = << >>

\* one call of find_external_audio_and_subtitles(v)
find(v) ==
  /\ Len(call_log) < MaxCalls
  /\ v \in inbox
  /\ \E r \in {find_external_audio_and_subtitles(Fs, inbox, abspath(v))} :
       call_log' = Append(call_log,
          CallEntry("find_external_audio_and_subtitles", abspath(v), FindDest(v),
                    "none", << >>, Fs, r))
  /\ UNCHANGED <<deb_vars, event_queue, fs_vars, main, is_initial_scan_complete,
                 cons, llm_calls, refresh_log, sweep_log>>

\* the search for v and link_external_media with what it returned
find_and_link(v) ==
  /\ Len(call_log) < MaxCalls
  /\ v \in inbox
  /\ \E external_files \in {find_external_audio_and_subtitles(Fs, inbox, abspath(v))} :
     \E r \in {link_external_media(Fs, inbox, abspath(v), FindDest(v),
                                   external_files)} :
       /\ SetFs(r.fs)
       /\ call_log' = Append(call_log,
            CallEntry("link_external_media", abspath(v), FindDest(v), "none",
                      external_files.audio \o external_files.subtitles,
                      r.fs, r.linked_count))
  /\ UNCHANGED <<deb_vars, event_queue, inbox, main, is_initial_scan_complete, cons,
                 llm_calls, refresh_log, sweep_log>>

FindNext ==
  \/ \E v \in FindVideos : find(v)
  \/ \E v \in FindVideos : find_and_link(v)

SpecFind == FindInit /\ [][FindNext]_vars

-----------------------------------------------------------------------------
(* Sidecars that arrive late: some videos of the inbox have been processed, *)
(* the watcher is serving, and audio and subtitle files are created.        *)

LateVideos ==
  {[dir |-> "A", stem |-> <<"a">>, ext |-> "mkv"],
   [dir |-> "A", stem |-> <<"a", "b">>, ext |-> "mkv"],
   [dir |-> "A", stem |-> <<"c">>, ext |-> "mkv"]}

\* a subtitle whose name starts with the stems of two videos, an audio track
\* named as one video, a subtitle named as no video
LateSidecars ==
  {[dir |-> "A", stem |-> <<"a", "b">>, ext |-> "ass"],
   [dir |-> "A", stem |-> <<"c">>, ext |-> "mka"],
   [dir |-> "A", stem |-> <<"d">>, ext |-> "ass"]}

\* what the classifier answered: two episodes of a series and a movie
LateInfo(v) ==
  IF v.stem = <<"c">> THEN Movie
  ELSE MediaInfo("series", <<"t">>, 1, Len(v.stem))

\* the loop over zip(file_paths, batch_info) with every call succeeding
RECURSIVE process_zip(_, _, _, _)
process_zip(fs, inb, file_paths, batch_info) ==
  IF file_paths = << >> \/ batch_info = << >> THEN fs
  ELSE Then(process_item(fs, inb, abspath(Head(file_paths)), Head(batch_info),
                         "ok").fs,
            LAMBDA fs1 : process_zip(fs1, inb, Tail(file_paths), Tail(batch_info)))

LateInit ==
  /\ InitDebouncer
  /\ timed = FALSE
  /\ inbox \in SUBSET LateVideos
  /\ \E linked \in SUBSET inbox :
       \E file_paths \in {SetToSeq(linked)} :
       \E fs \in {process_zip(EmptyFs, inbox, file_paths,
                              [i \in DOMAIN file_paths |-> LateInfo(file_paths[i])])} :
         dest = fs.dest /\ dest_dirs = fs.dirs /\ journal = fs.journal
  /\ main = MainAt("serving")
  /\ is_initial_scan_complete = TRUE
  /\ cons = ConsAt("idle")
  /\ llm_calls = << >>
  /\ refresh_log = << >>
  /\ sweep_log = << >>
  /\ call_log = << >>

LateNext ==
  \/ \E p \in LateSidecars : FsCreate(p)
  \/ cons_get
  \/ handle_external_media_added

SpecLate == LateInit /\ [][LateNext]_vars

-----------------------------------------------------------------------------
(* Properties of the whole program                                         *)

FsNext == [dest |-> dest', dirs |-> dest_dirs', journal |-> journal']

\* run_initial_scan is between its first and its last line
ScanRunning == main.pc \in {"sweep", "index", "walk", "classify", "items"}
\* the consumer has taken an event and not yet finished with it
ConsHandling == cons.pc \in {"handle", "classify", "items", "batch_end"}

\* C3: while is_initial_scan_complete is false the consumer takes no event
\* from event_queue and handles none: every step leaves the consumer at the
\* top of its loop and the queue only grows at its tail, so the events of that
\* period wait, in the order they were enqueued, until the flag is set.
C3_InitialScanGate ==
  [][ ~is_initial_scan_complete =>
        /\ cons'.pc \in {"not_started", "idle"}
        /\ IsPrefix(event_queue, event_queue') ]_vars

\* the scan is still at work, the consumer runs, and two events of different
\* kinds wait in the queue
C3_Witness ==
  /\ ~is_initial_scan_complete
  /\ main.pc = "items"
  /\ cons.pc = "idle"
  /\ Len(event_queue) = 2
  /\ event_queue[1].type = "deleted"
  /\ event_queue[2].type = "batch_created"

\* C4: the destination roots and the failure journals have one writer at a
\* time.  The scan and the consumer are never at work together, the consumer
\* handles an event only after run_initial_scan has returned, and a step that
\* changes the destination side is a step of the scan or of the consumer in
\* which the observer and the timers do nothing.
C4_SingleWriter ==
  [][ /\ ~(ScanRunning' /\ ConsHandling')
      /\ ConsHandling' => main'.pc \in {"done", "serving"}
      /\ FsNext # Fs =>
           /\ \/ ScanRunning /\ main' # main /\ cons' = cons
              \/ ConsHandling /\ cons' # cons /\ main' = main
           /\ UNCHANGED <<deb_vars, event_queue>> ]_vars

\* the consumer links the items of a batch in a tree the scan wrote before
C4_Witness ==
  /\ cons.pc = "items"
  /\ cons.i = 2
  /\ main.pc = "serving"
  /\ \E k \in DOMAIN llm_calls : llm_calls[k].by = "scan"
  /\ get_processed_files(Fs, inbox) # {}

\* C5 (as stated): no classifier call, by the scan or by the event loop, is
\* given a file that is processed or failed when the call is made.
C5_SkipList ==
  \A k \in DOMAIN llm_calls : llm_calls[k].known = {}

\* C6 (as stated): when run_initial_scan has returned and the inbox was not
\* touched meanwhile, running it again changes nothing and classifies nothing:
\* the sweep leaves the destination side as it is and the walk yields no batch.
C6_RestartIdempotence ==
  (main.pc = "done" /\ n_notif = 0) =>
    LET again == cleanup_broken_links(Fs, inbox).fs
        skip_files == get_processed_files(again, inbox) \cup get_failed_files(again)
    IN  /\ again = Fs
        /\ next_batch(inbox, skip_files, WalkOrder).batch = << >>

\* the step in which the classifier answers the last call
AnswerStep == Len(llm_calls') = Len(llm_calls) /\ llm_calls' # llm_calls
LastCall == llm_calls'[Len(llm_calls')]
BadAnswer(c) == c.n_results = 0 \/ c.n_results # Len(c.files)
InJournal(fs, path) == path \in get_failed_files(fs)

\* C7 (as stated): on an answer that is empty or of another length than the
\* batch, every file of the batch is in a failure journal and nothing is
\* created, for the batches of the event loop and of the initial scan alike.
C7_AllOrNothingAsStated ==
  [][ (AnswerStep /\ BadAnswer(LastCall)) =>
        /\ dest' = dest /\ dest_dirs' = dest_dirs
        /\ cons'.pc \notin {"items", "batch_end"}
        /\ main'.pc # "items"
        /\ \A f \in SeqToSet(LastCall.files) : InJournal(FsNext, f) ]_vars

\* C7: on an answer that is empty or of another length than the batch,
\* nothing is created and the handling of the batch is over; the event loop
\* has recorded every file of the batch in a failure journal, and the initial
\* scan has recorded the folder of the batch (not its files).
C7_AllOrNothing ==
  [][ (AnswerStep /\ BadAnswer(LastCall)) =>
        /\ dest' = dest /\ dest_dirs' = dest_dirs
        /\ LastCall.by = "consumer" =>
             /\ cons'.pc = "idle"
             /\ \A f \in SeqToSet(LastCall.files) : InJournal(FsNext, f)
        /\ LastCall.by = "scan" =>
             /\ main'.pc = "walk"
             /\ InJournal(FsNext, parent(LastCall.files[1])) ]_vars

\* the scan got a list of the wrong length for a batch of two files, and the
\* event loop got one for a later batch; the journal names the folder and the
\* file
C7_Witness ==
  /\ \E k \in DOMAIN llm_calls :
       /\ llm_calls[k].by = "scan"
       /\ Len(llm_calls[k].files) = 2
       /\ llm_calls[k].n_results \in {1, 3}
       /\ InJournal(Fs, parent(llm_calls[k].files[1]))
  /\ \E k \in DOMAIN llm_calls :
       /\ llm_calls[k].by = "consumer"
       /\ llm_calls[k].n_results # Pending
       /\ BadAnswer(llm_calls[k])
       /\ \A f \in SeqToSet(llm_calls[k].files) : InJournal(Fs, f)

\* C8: when a handler raises, process_events catches the exception and goes
\* on: under a fair schedule of the consumer, after any caught exception the
\* loop is again at its top with every waiting event taken.
C8_LoopSurvives ==
  (cons.caught > 0) ~> (cons.pc = "idle" /\ event_queue = << >>)

\* an exception was caught, and the loop has taken the next event
C8_Witness ==
  /\ cons.caught > 0
  /\ cons.pc = "handle"

\* C9 (as stated): when the event loop is done with a batch, each file of the
\* batch that existed, and still exists, is processed or in a failure journal.
C9_EveryFailureJournaled ==
  [][ (cons.pc \in {"classify", "items", "batch_end"} /\ cons'.pc = "idle") =>
        \A f \in SeqToSet(cons.valid_files) :
          InboxHas(inbox', f) =>
            \/ f \in get_processed_files(FsNext, inbox')
            \/ InJournal(FsNext, f) ]_vars

-----------------------------------------------------------------------------
(* Properties of cleanup_broken_links (SpecSweep)                          *)

Resolves(fs, inb, f) == islink(fs, f) /\ exists(fs, inb, f)
Broken(fs, inb, f) == islink(fs, f) /\ ~exists(fs, inb, f)
Kept(e, f) == f \in DOMAIN e.after.dest /\ e.after.dest[f] = e.before.dest[f]
IsSidecar(f) == lower(basename(f).ext) \in extra_extensions

\* the stems of the videos of f's root that resolve when the sweep starts
SurvivingStems(e, f) ==
  {basename(v).stem : v \in {d \in DOMAIN e.before.dest :
      d[1] = f[1] /\ IsVideo(d) /\ exists(e.before, e.inb, d)}}

\* C10 (as stated): no sweep removes a link, video, audio or subtitle, whose
\* target exists; every sweep removes every link whose target is gone, and
\* with a broken video link its same-stem .nfo
C10_SweepAsStated ==
  \A k \in DOMAIN sweep_log :
    LET e == sweep_log[k] IN
    \A f \in DOMAIN e.before.dest :
      /\ Resolves(e.before, e.inb, f) => Kept(e, f)
      /\ Broken(e.before, e.inb, f) => f \notin DOMAIN e.after.dest
      /\ (Broken(e.before, e.inb, f) /\ IsVideo(f)) =>
           nfo_of(f) \notin DOMAIN e.after.dest

\* C10: no sweep removes a video link whose target exists, nor an audio or
\* subtitle link whose target exists and whose stem equals or starts with the
\* stem of a video of the same root that resolves; every sweep removes every
\* link whose target is gone, and with a broken video link its same-stem .nfo
C10_SweepAndResolvingLinks ==
  \A k \in DOMAIN sweep_log :
    LET e == sweep_log[k] IN
    \A f \in DOMAIN e.before.dest :
      /\ (Resolves(e.before, e.inb, f) /\ IsVideo(f)) => Kept(e, f)
      /\ (/\ Resolves(e.before, e.inb, f)
          /\ IsSidecar(f)
          /\ \E s \in SurvivingStems(e, f) : IsPrefix(s, basename(f).stem))
           => Kept(e, f)
      /\ Broken(e.before, e.inb, f) => f \notin DOMAIN e.after.dest
      /\ (Broken(e.before, e.inb, f) /\ IsVideo(f)) =>
           nfo_of(f) \notin DOMAIN e.after.dest

\* C10 witness: one sweep found a broken video link with its .nfo and removed
\* both, and kept a video link and a suffixed sidecar link that resolve
C10_Witness ==
  \E k \in DOMAIN sweep_log :
    LET e == sweep_log[k] IN
    /\ \E f \in DOMAIN e.before.dest :
         /\ Broken(e.before, e.inb, f) /\ IsVideo(f)
         /\ nfo_of(f) \in DOMAIN e.before.dest
         /\ f \notin DOMAIN e.after.dest
         /\ nfo_of(f) \notin DOMAIN e.after.dest
    /\ \E v, c \in DOMAIN e.after.dest :
         /\ Resolves(e.before, e.inb, v) /\ IsVideo(v)
         /\ Resolves(e.before, e.inb, c) /\ IsSidecar(c)
         /\ basename(c).stem # basename(v).stem
         /\ IsPrefix(basename(v).stem, basename(c).stem)

Removed(e, f) == f \in DOMAIN e.before.dest /\ f \notin DOMAIN e.after.dest
Orphaned(e, f) == ~\E s \in SurvivingStems(e, f) : IsPrefix(s, basename(f).stem)

\* C11 (as stated): a sweep removes an audio or subtitle entry of a root exactly
\* when no video entry of that root that resolves has a stem equal to, or a
\* prefix of, the entry's stem
C11_OrphanDetectionAsStated ==
  \A k \in DOMAIN sweep_log :
    LET e == sweep_log[k] IN
    \A f \in DOMAIN e.before.dest :
      IsSidecar(f) => (Removed(e, f) <=> Orphaned(e, f))

\* C11: a sweep removes an audio or subtitle entry that is not a broken link
\* exactly when no video entry of its root that resolves has a stem equal to,
\* or a prefix of, the entry's stem; an audio or subtitle link whose target is
\* gone is removed whatever videos survive
C11_OrphanDetection ==
  \A k \in DOMAIN sweep_log :
    LET e == sweep_log[k] IN
    \A f \in DOMAIN e.before.dest :
      IsSidecar(f) =>
        IF Broken(e.before, e.inb, f)
        THEN Removed(e, f)
        ELSE /\ Removed(e, f) <=> Orphaned(e, f)
             /\ ~Removed(e, f) => Kept(e, f)

\* C11 witness: one sweep removed a sidecar link that resolves because the only
\* video it could belong to is a broken link, and another sweep kept a suffixed
\* sidecar beside a video that resolves
C11_Witness ==
  /\ \E k \in DOMAIN sweep_log :
       LET e == sweep_log[k] IN
       \E f, v \in DOMAIN e.before.dest :
         /\ IsSidecar(f) /\ Resolves(e.before, e.inb, f) /\ Removed(e, f)
         /\ IsVideo(v) /\ Broken(e.before, e.inb, v)
         /\ IsPrefix(basename(v).stem, basename(f).stem)
  /\ \E k \in DOMAIN sweep_log :
       LET e == sweep_log[k] IN
       \E f, v \in DOMAIN e.before.dest :
         /\ IsSidecar(f) /\ Kept(e, f)
         /\ IsVideo(v) /\ Resolves(e.before, e.inb, v)
         /\ basename(f).stem # basename(v).stem
         /\ IsPrefix(basename(v).stem, basename(f).stem)

-----------------------------------------------------------------------------
(* Properties of the deletion scenario (SpecDeletion)                      *)

DelDest(v) == series_dest_file(abspath(v), DelInfo(v))
DelAudioDest(v) == sidecar_dest(abspath(v), DelDest(v), abspath(DelAudio(v)))
ConsQuiet == cons.pc = "idle" /\ event_queue = << >>

\* the link of v, its .nfo and the link of its audio track are gone
DelGone(v) ==
  /\ DelDest(v) \notin DOMAIN dest
  /\ nfo_of(DelDest(v)) \notin DOMAIN dest
  /\ DelAudioDest(v) \notin DOMAIN dest

\* the link of v, its .nfo and the link of its audio track are as created
DelUntouched(v) ==
  /\ DelDest(v) \in DOMAIN dest
  /\ dest[DelDest(v)] = LinkTo(v, DelDest(v)).entry
  /\ nfo_of(DelDest(v)) \in DOMAIN dest
  /\ DelAudio(v) \in inbox =>
       /\ DelAudioDest(v) \in DOMAIN dest
       /\ dest[DelAudioDest(v)] = LinkTo(DelAudio(v), DelAudioDest(v)).entry

\* C12: once every deleted event has been handled, the link, the .nfo and the
\* audio link of each video whose source was deleted are gone, and those of
\* each video whose source exists are unchanged, whichever episodes are
\* siblings in the season directory
C12_DeletionScenario ==
  ConsQuiet => \A v \in DelVideos :
             IF v \in inbox THEN DelUntouched(v) ELSE DelGone(v)

\* the tree and the inbox a step starts from, and the tree it leaves
StepEntry == [before |-> Fs, inb |-> inbox,
              after |-> [dest |-> dest', dirs |-> dest_dirs', journal |-> journal']]

IsTvshowNfo(f) == basename(f).stem = <<"tvshow">> /\ basename(f).ext = "nfo"

\* f is the .nfo of a video, and no entry for that video resolves beside it
NfoOfDeadVideo(fs, inb, f) ==
  /\ basename(f).ext = "nfo" /\ ~IsTvshowNfo(f)
  /\ \A v \in DOMAIN fs.dest : IsVideo(v) /\ nfo_of(v) = f => ~exists(fs, inb, v)

\* some video link below the series folder of f resolves
HasResolvableEpisode(fs, inb, f) ==
  \E v \in DOMAIN fs.dest :
    IsPrefix(parent(f), v) /\ IsVideo(v) /\ Resolves(fs, inb, v)

\* C13: every file a sweep removes is a broken link, the .nfo of a video whose
\* link is broken or absent, an audio or subtitle entry with no surviving
\* video, or the tvshow.nfo of a series that has no resolvable episode link
C13_SweepRemovesOnlyDead ==
  [][\A f \in DOMAIN dest \ DOMAIN dest' :
       \/ Broken(Fs, inbox, f)
       \/ NfoOfDeadVideo(Fs, inbox, f)
       \/ IsSidecar(f) /\ Orphaned(StepEntry, f)
       \/ IsTvshowNfo(f) /\ ~HasResolvableEpisode(Fs, inbox, f)]_vars

-----------------------------------------------------------------------------
(* Properties of the linking functions (SpecLink)                          *)

IsLinkCall(e) == e.op = "create_relative_symlink" /\ e.fault = "none"

\* C14: when create_relative_symlink is called twice in a row with the same
\* source and destination, the second call returns success and leaves the tree
\* the first call left
C14_LinkIdempotence ==
  \A k \in DOMAIN call_log : k + 1 \in DOMAIN call_log =>
    LET e1 == call_log[k]
        e2 == call_log[k + 1]
    IN  /\ IsLinkCall(e1) /\ IsLinkCall(e2)
        /\ e1.src = e2.src /\ e1.dst = e2.dst
        /\ e2.inb = e1.inb
        => e2.result /\ e2.after = e1.after

\* C15: when an entry is at the destination path, whether a plain file, a link
\* whose target exists or a link whose target is gone, create_relative_symlink
\* returns success and the entry is as it was
C15_LinkNeverOverwrites ==
  \A k \in DOMAIN call_log :
    LET e == call_log[k] IN
    IsLinkCall(e) /\ e.dst \in DOMAIN e.before.dest =>
      /\ e.result
      /\ e.dst \in DOMAIN e.after.dest
      /\ e.after.dest[e.dst] = e.before.dest[e.dst]

\* what is left of the stem of the candidate c after the stem of the video
SuffixOf(video_stem, c) ==
  IF \E j \in 1..(Len(c.stem) + 1) :
       video_stem \o SubSeq(c.stem, j, Len(c.stem)) = c.stem
  THEN SubSeq(c.stem,
              CHOOSE j \in 1..(Len(c.stem) + 1) :
                video_stem \o SubSeq(c.stem, j, Len(c.stem)) = c.stem,
              Len(c.stem))
  ELSE << >>

\* stem of the destination video + suffix + extension of the candidate, in the
\* directory of the destination video
ExpectedName(e, cand) ==
  parent(e.dst)
    \o <<File(basename(e.dst).stem \o SuffixOf(basename(e.src).stem, basename(cand)),
              basename(cand).ext)>>

\* C16: link_external_media names the link of each candidate by the stem of the
\* destination video, then what follows the stem of the source video in the
\* stem of the candidate (nothing when the candidate does not start with it),
\* then the extension of the candidate, in the directory of the destination
\* video: where no entry of that name was there the link is created and points
\* at the candidate, and the call creates no entry of another name
C16_SidecarSuffix ==
  \A k \in DOMAIN call_log :
    LET e == call_log[k] IN
    e.op = "link_external_media" =>
      /\ \A i \in DOMAIN e.cands :
           LET n == ExpectedName(e, e.cands[i]) IN
           /\ n \notin DOMAIN e.before.dest
           /\ \A j \in 1..(i - 1) : ExpectedName(e, e.cands[j]) # n
           => /\ islink(e.after, n)
              /\ resolve(e.after, n) = e.cands[i]
      /\ \A f \in DOMAIN e.after.dest \ DOMAIN e.before.dest :
           \E i \in DOMAIN e.cands : f = ExpectedName(e, e.cands[i])
      /\ \A f \in DOMAIN e.before.dest :
           f \in DOMAIN e.after.dest /\ e.after.dest[f] = e.before.dest[f]

\* C16 witness: one call linked a candidate whose stem extends the stem of the
\* source video under a name with the suffix, and a candidate named otherwise
\* under the bare stem of the destination video
C16_Witness ==
  \E k \in DOMAIN call_log :
    LET e == call_log[k] IN
    /\ e.op = "link_external_media"
    /\ \E i, j \in DOMAIN e.cands :
         /\ basename(e.cands[i]).stem = <<"a", "b">>
         /\ basename(e.cands[j]).stem = <<"c">>
         /\ \A c \in {e.cands[i], e.cands[j]} :
              \E f \in DOMAIN e.after.dest \ DOMAIN e.before.dest :
                islink(e.after, f) /\ resolve(e.after, f) = c
         /\ e.result >= 2

-----------------------------------------------------------------------------
(* Properties of the failure journals (SpecJournal)                        *)

Roots == {"movies", "series"}
Count(lines, l) == Cardinality({i \in DOMAIN lines : lines[i] = l})
NoDuplicates(lines) == \A l \in SeqToSet(lines) : Count(lines, l) = 1

\* C17: whatever calls of mark_as_failed, of the processing methods and of the
\* sweep were made, no journal holds a path on two lines, and after a call of
\* mark_as_failed the journal of the root holds the path on exactly one line
C17_JournalDeduplication ==
  /\ \A r \in Roots : NoDuplicates(journal[r])
  /\ \A k \in DOMAIN call_log :
       LET e == call_log[k] IN
       e.op = "mark_as_failed" =>
         Count(e.after.journal[RootName(e.dst)], relpath(e.src, mixed_path)) = 1

\* C17 witness: mark_as_failed was called for a path whose line the journal of
\* the root already held from an earlier call, and the line is there once
C17_Witness ==
  \E k, m \in DOMAIN call_log :
    LET e1 == call_log[k]
        e2 == call_log[m]
    IN  /\ k < m
        /\ e1.op = "mark_as_failed" /\ e2.op = "mark_as_failed"
        /\ e1.src = e2.src /\ e1.dst = e2.dst
        /\ relpath(e2.src, mixed_path) \in SeqToSet(e2.before.journal[RootName(e2.dst)])
        /\ Count(journal[RootName(e2.dst)], relpath(e2.src, mixed_path)) = 1

Line(l) == normjoin(mixed_path, l)
SweepStep == sweep_log' # sweep_log

\* C18: a line leaves a journal only in a step of the sweep and only when the
\* inbox path it names does not exist; after a step of the sweep every line of
\* every journal names a path that exists
C18_JournalCompaction ==
  [][\A r \in Roots :
       /\ \A l \in SeqToSet(journal[r]) \ SeqToSet(journal'[r]) :
            SweepStep /\ ~exists(Fs, inbox, Line(l))
       /\ SweepStep =>
            \A l \in SeqToSet(journal'[r]) : exists(Fs, inbox, Line(l))]_vars

\* C18 witness: a sweep found two lines in a journal, removed the one whose
\* file was gone and kept the one whose file exists
C18_Witness ==
  \E k \in DOMAIN sweep_log :
    LET e == sweep_log[k] IN
    \E r \in Roots : \E l1, l2 \in SeqToSet(e.before.journal[r]) :
      /\ ~exists(e.before, e.inb, Line(l1))
      /\ l1 \notin SeqToSet(e.after.journal[r])
      /\ exists(e.before, e.inb, Line(l2))
      /\ l2 \in SeqToSet(e.after.journal[r])

-----------------------------------------------------------------------------
(* Properties of get_processed_files (SpecIndex)                           *)

\* a video-extension link below a destination root whose target is p and
\* exists, with the .nfo of the same stem beside it
LinksWithNfo(fs, inb, v, p) ==
  /\ v \in DOMAIN fs.dest
  /\ v[1].name \in Roots
  /\ lower(basename(v).ext) \in video_extensions
  /\ fs.dest[v].kind = "link"
  /\ normjoin(SubSeq(v, 1, Len(v) - 1), fs.dest[v].target) = p
  /\ InboxHas(inb, p)
  /\ \E n \in DOMAIN fs.dest :
       /\ SubSeq(n, 1, Len(n) - 1) = SubSeq(v, 1, Len(v) - 1)
       /\ n[Len(n)].stem = v[Len(v)].stem /\ n[Len(n)].ext = "nfo"

\* C19: get_processed_files returns exactly the source paths p for which a
\* destination root holds a video-extension link that resolves to p, with p
\* existing, and a .nfo of the same stem beside the link
C19_ProcessedSet ==
  \A k \in DOMAIN call_log :
    LET e == call_log[k] IN
    e.op = "get_processed_files" =>
      /\ \A p \in e.result : \E v \in DOMAIN e.before.dest :
           LinksWithNfo(e.before, e.inb, v, p)
      /\ \A v \in DOMAIN e.before.dest : \A q \in e.inb :
           LinksWithNfo(e.before, e.inb, v, abspath(q)) => abspath(q) \in e.result

\* C19 witness: one call found a link with its .nfo, whose source it returned,
\* beside a resolving link without .nfo, whose source it did not return;
\* a later call found the first link broken, its .nfo still beside it, and
\* returned nothing
C19_Witness ==
  /\ \E k \in DOMAIN call_log :
       LET e == call_log[k] IN
       /\ e.op = "get_processed_files"
       /\ \E v, w \in DOMAIN e.before.dest :
            /\ Resolves(e.before, e.inb, v) /\ IsVideo(v)
            /\ nfo_of(v) \in DOMAIN e.before.dest
            /\ resolve(e.before, v) \in e.result
            /\ Resolves(e.before, e.inb, w) /\ IsVideo(w)
            /\ nfo_of(w) \notin DOMAIN e.before.dest
            /\ resolve(e.before, w) \notin e.result
  /\ \E k \in DOMAIN call_log :
       LET e == call_log[k] IN
       /\ e.op = "get_processed_files"
       /\ \E v \in DOMAIN e.before.dest :
            /\ Broken(e.before, e.inb, v) /\ IsVideo(v)
            /\ nfo_of(v) \in DOMAIN e.before.dest
       /\ e.result = {}

-----------------------------------------------------------------------------
(* Properties of the start-up sequence (Spec)                              *)

\* where the main thread is: before setup_watcher, before the sweep, before
\* the index, in the walk, after the walk, after the flag
Phase(pc) ==
  CASE pc = "setup" -> 0
    [] pc = "sweep" -> 1
    [] pc = "index" -> 2
    [] pc \in {"walk", "classify", "items"} -> 3
    [] pc = "done" -> 4
    [] OTHER -> 5

ScanCalls(calls) == {i \in DOMAIN calls : calls[i].by = "scan"}

\* C20: the main thread goes through its phases in order, one at a time, unless
\* it dies; when the sweep runs the watcher has been started; the skip set is
\* computed by the step that follows the sweep; a batch goes to the classifier
\* only in the walk, which follows the index; and the flag changes only when
\* the walk has finished
C20_StartupOrder ==
  [][/\ main'.pc # "crashed" =>
          /\ Phase(main.pc) <= Phase(main'.pc)
          /\ Phase(main'.pc) <= Phase(main.pc) + 1
     /\ main.pc = "sweep" => cons.pc # "not_started"
     /\ n_notif' # n_notif => Phase(main.pc) >= 1
     /\ main'.skip_files # main.skip_files /\ Phase(main'.pc) <= 3 =>
          main.pc = "index"
     /\ ScanCalls(llm_calls') # ScanCalls(llm_calls) => main.pc = "walk"
     /\ is_initial_scan_complete' # is_initial_scan_complete =>
          main.pc = "done" /\ is_initial_scan_complete']_vars

\* C20 witness: the walk has handed to the classifier a batch that leaves out
\* the files of the skip set computed before it, while an event that arrived
\* since the watcher was started waits in the queue, unconsumed, and the flag
\* is not set
C20_Witness ==
  /\ main.pc = "classify"
  /\ ~is_initial_scan_complete
  /\ main.skip_files # {}
  /\ \A f \in SeqToSet(main.file_paths) : f \notin main.skip_files
  /\ n_notif > 0
  /\ event_queue # << >>
  /\ cons.pc = "idle"

-----------------------------------------------------------------------------
(* Properties of the notifications and of their handlers                   *)

NextFs == [dest |-> dest', dirs |-> dest_dirs', journal |-> journal']

\* the consumer returns from the handler of an event of the given type
Handled(type) == cons.pc = "handle" /\ cons.ev.type = type /\ cons'.pc # "handle"

\* C21: the deletion of a file of the inbox, whatever its extension, appends
\* one ('deleted', path) event to the queue and touches no pending batch; the
\* handler of that event leaves the tree one sweep leaves: in neither root a
\* broken link, in neither journal a line whose inbox path is gone
C21_DeletionNotifications ==
  [][/\ \A p \in inbox \ inbox' :
          /\ event_queue' = Append(event_queue, PathEvent("deleted", p))
          /\ pending_batches' = pending_batches /\ timers' = timers
     /\ Handled("deleted") =>
          /\ NextFs = cleanup_broken_links(Fs, inbox).fs
          /\ \A f \in DOMAIN dest' : ~Broken(NextFs, inbox', f)
          /\ \A r \in Roots : \A l \in SeqToSet(journal'[r]) :
               exists(NextFs, inbox', Line(l))]_vars

\* C21 witness: the only notification so far was the deletion of the text
\* file; its event has been handled, and the sweep has run: the tvshow.nfo
\* that process_series wrote beside the linked episodes is gone
C21_Witness ==
  /\ DelNote \notin inbox
  /\ n_notif = 1
  /\ ConsQuiet /\ cons.caught = 0
  /\ \E v \in DelVideos : v \in inbox /\ Resolves(Fs, inbox, DelDest(v))
  /\ \A f \in DOMAIN dest : ~IsTvshowNfo(f)

\* the videos of the inbox whose stem the file name of the sidecar starts with
Candidates(inb, sc) ==
  {v \in inb : /\ lower(v.ext) \in video_extensions
               /\ IsPrefix(v.stem, FileName(File(sc.stem, sc.ext)))}

\* the owners of the sidecar: of those videos, the ones whose stem is longest
Owners(inb, sc) ==
  {v \in Candidates(inb, sc) :
     \A w \in Candidates(inb, sc) : Len(w.stem) <= Len(v.stem)}

\* beside d, stem(d) + (stem of sc minus stem of v) + ext(sc) links to sc
Attached(fs, v, d, sc) ==
  LET n == parent(d) \o <<File(basename(d).stem \o SuffixOf(v.stem, sc), sc.ext)>>
  IN  islink(fs, n) /\ resolve(fs, n) = abspath(sc)

\* C22: when the handler of external_media_added returns for a sidecar whose
\* owner has a destination link, a link named by the stem of that link, the
\* suffix of the sidecar and its extension lies beside the link and resolves
\* to the sidecar, also when the stems of several videos of the inbox are
\* prefixes of the name of the sidecar
C22_LateSidecar ==
  [][Handled("external_media_added") =>
       \A v \in Owners(inbox, cons.ev.path) :
         \A d \in find_dest_symlink(Fs, abspath(v)) :
           Attached(NextFs, v, d, cons.ev.path)]_vars

\* some video link of a destination root resolves to the inbox video v
HasDestLink(fs, v) ==
  \E d \in DOMAIN fs.dest :
    IsVideo(d) /\ islink(fs, d) /\ resolve(fs, d) = abspath(v)

VideoSpellings == {"mkv", "MKV", "mp4"}
ExternalSpellings == {"mka", "MKA", "ass"}

\* the events a step appended to the queue
Enqueued ==
  IF Len(event_queue') >= Len(event_queue)
     /\ SubSeq(event_queue', 1, Len(event_queue)) = event_queue
  THEN SubSeq(event_queue', Len(event_queue) + 1, Len(event_queue'))
  ELSE << >>

\* what a created or moved-to notification of path p does
Routed(is_directory, p) ==
  IF is_directory THEN UNCHANGED <<deb_vars, event_queue>>
  ELSE IF p.ext \in VideoSpellings
  THEN /\ obs' = [pc |-> "queue_for_batching", file |-> p]
       /\ event_queue' = event_queue
  ELSE IF p.ext \in ExternalSpellings
  THEN /\ Enqueued # << >>
       /\ Enqueued[Len(Enqueued)] = PathEvent("external_media_added", p)
       /\ \A k \in 1..Len(Enqueued) : Enqueued[k].type # "batch_created"
       /\ pending_batches' = pending_batches
       /\ obs' = obs /\ timers' = timers
  ELSE UNCHANGED <<deb_vars, event_queue>>

\* C24: a created or moved-to notification is routed by the extension of the
\* path, whatever its case: a video enters _queue_for_batching, which adds it
\* to the pending batch of its folder, and nothing is enqueued; an audio track
\* or a subtitle enqueues external_media_added for the path and leaves
\* pending_batches alone; any other extension, and every directory, changes
\* neither
C24_EventRouting ==
  [][/\ \A d \in BOOLEAN, p \in BatchPaths : on_created(d, p) => Routed(d, p)
     /\ \A d \in BOOLEAN, m \in BatchMoves :
          on_moved(d, m[1], m[2]) => Routed(d, m[2])
     /\ obs.pc = "queue_for_batching" /\ obs'.pc = "idle"
          => /\ dirname(obs.file) \in DOMAIN pending_batches'
             /\ obs.file \in pending_batches'[dirname(obs.file)].files
             /\ event_queue' = event_queue]_vars

\* C24 witness: the video named in upper case is in the pending batch of its
\* folder, the audio track has an external_media_added event, and no event
\* names the video
C24_Witness ==
  /\ "A" \in DOMAIN pending_batches
  /\ [dir |-> "A", stem |-> <<"b">>, ext |-> "MKV"] \in pending_batches["A"].files
  /\ [dir |-> "A", stem |-> <<"a">>, ext |-> "mka"] \notin pending_batches["A"].files
  /\ \E k \in 1..Len(event_queue) :
       event_queue[k] = PathEvent("external_media_added",
                                  [dir |-> "A", stem |-> <<"a">>, ext |-> "mka"])
  /\ \A k \in 1..Len(event_queue) : event_queue[k].type # "batch_created"

\* the file lies in a folder that holds an .ignore marker, or beneath one
Ignored(inb, f) ==
  \E d \in {"", "A", "B"} : IgnoreMarker(d) \in inb /\ IsPrefix(FolderPath(d), f)

\* the classifier calls of one caller hand over no ignored file
NoIgnoredFile(by) ==
  \A k \in 1..Len(llm_calls) :
    llm_calls[k].by = by =>
      \A i \in 1..Len(llm_calls[k].files) : ~Ignored(inbox, llm_calls[k].files[i])

\* C25: no video of a folder that holds an .ignore marker, or of a folder
\* beneath one, is handed to the classifier, neither by the walk of the
\* initial scan nor by a batch of the watcher
C25_IgnoreMarker ==
  NoIgnoredFile("scan") /\ NoIgnoredFile("consumer")

\* the refresh calls a step made
Refreshed ==
  SubSeq(refresh_log', Len(refresh_log) + 1, Len(refresh_log'))
RefreshCount(root) ==
  Cardinality({k \in 1..Len(Refreshed) : Refreshed[k].lib = root})

\* a video link beneath the root resolves to a file of the batch
BatchEntryIn(fs, root, valid_files) ==
  \E d \in DOMAIN fs.dest :
    /\ RootName(d) = root
    /\ IsVideo(d) /\ islink(fs, d)
    /\ \E i \in 1..Len(valid_files) : resolve(fs, d) = valid_files[i]

\* C26: when _process_batch returns for a batch the classifier returned
\* results for, and none of whose files had an entry or a journal line
\* before, refresh_library was called exactly once for each destination root
\* that now holds an entry of the batch, and not at all for a root that holds
\* none
C26_RefreshPerRoot ==
  [][/\ cons.pc = "batch_end" /\ cons'.pc = "idle"
     /\ llm_calls[Len(llm_calls)].known = {}
     => \A root \in Roots :
          RefreshCount(root) =
            IF BatchEntryIn(Fs, root, cons.valid_files) THEN 1 ELSE 0]_vars

\* timer i had been superseded when n insertions had been made: a later
\* insertion into its folder had replaced it in pending_batches
Superseded(i, n) ==
  \E k \in (i + 1)..n : ins_log[k].folder = timers[i].folder

\* C27: each folder has at most one outstanding timer that can still flush its
\* batch, and no batch is flushed by a superseded timer, one whose callback was
\* waiting for batch_lock when it was superseded included
C27_OneLiveDeadline ==
  /\ \A F \in Folders : Cardinality(LiveTimers(F)) <= 1
  /\ \A j \in 1..Len(batch_log) : ~Superseded(batch_log[j].timer, batch_log[j].ni)

\* the most recent insertion into the folder of batch j before its flush
LastInsertion(j) ==
  CHOOSE k \in 1..batch_log[j].ni :
    /\ ins_log[k].folder = batch_log[j].folder
    /\ \A l \in (k + 1)..batch_log[j].ni : ins_log[l].folder # batch_log[j].folder

\* C28: a batch_created event is enqueued only when a full batch_timeout has
\* passed since the most recent insertion into its folder: an insertion made
\* before the flush runs postpones the flush by a full window
C28_SlidingWindow ==
  timed =>
    \A j \in 1..Len(batch_log) :
      batch_log[j].t >= ins_log[LastInsertion(j)].t + batch_timeout

\* C29: batch_lock is held only inside the two critical sections that read
\* and change pending_batches, the body of _queue_for_batching and the pop of
\* _trigger_batch; pending_batches changes nowhere else; and no step of the
\* main thread or of the consumer thread (the classifier calls, the writes of
\* links and metadata files, the sweeps) takes, holds or releases it
C29_LockScope ==
  [][/\ batch_lock \in {"free", "observer"}
     /\ batch_lock = "observer" <=> obs.pc = "queue_for_batching"
     /\ batch_lock' = "observer" <=> obs'.pc = "queue_for_batching"
     /\ pending_batches' # pending_batches
          => \/ /\ batch_lock = "observer" /\ batch_lock' = "free"
                /\ UNCHANGED <<main, cons, fs_vars, hist_vars>>
             \/ /\ batch_lock = "free" /\ batch_lock' = "free"
                /\ \E i \in 1..Len(timers) :
                     timers[i].st = "fired" /\ timers'[i].st = "done"
                /\ UNCHANGED <<main, cons, fs_vars, hist_vars>>
     /\ (main' # main \/ cons' # cons \/ NextFs # Fs \/ hist_vars' # hist_vars)
          => UNCHANGED <<batch_lock, obs, pending_batches, timers>>]_vars

\* C29 witness: the observer thread holds batch_lock inside
\* _queue_for_batching while the consumer thread waits for the classifier's
\* answer, and a link was written before
C29_Witness ==
  /\ batch_lock = "observer"
  /\ obs.pc = "queue_for_batching"
  /\ cons.pc = "classify"
  /\ \E d \in DOMAIN dest : IsVideo(d)

\* the files of the event the consumer handles that exist
StillThere == {abspath(p) : p \in cons.ev.files \cap inbox}

\* C30: when _process_batch starts, the files of the batch that are gone are
\* not passed to the classifier; if none is left the handler returns with no
\* classifier call and nothing written; otherwise the classifier is called
\* with exactly the files that are left, and is not called again before the
\* handler returns; and a mismatch marks no file failed that was gone
C30_BatchRevalidation ==
  [][/\ (cons.pc = "handle" /\ cons.ev.type = "batch_created" /\ cons' # cons)
          => IF StillThere = {}
             THEN /\ llm_calls' = llm_calls
                  /\ NextFs = Fs
                  /\ refresh_log' = refresh_log
                  /\ cons'.pc = "idle"
             ELSE /\ Len(llm_calls') = Len(llm_calls) + 1
                  /\ SubSeq(llm_calls', 1, Len(llm_calls)) = llm_calls
                  /\ SeqToSet(llm_calls'[Len(llm_calls')].files) = StillThere
                  /\ Len(llm_calls'[Len(llm_calls')].files) = Cardinality(StillThere)
                  /\ cons'.valid_files = llm_calls'[Len(llm_calls')].files
                  /\ NextFs = Fs
     /\ cons.pc \in {"classify", "items", "batch_end"}
          => /\ Len(llm_calls') = Len(llm_calls)
             /\ get_failed_files(NextFs) \ get_failed_files(Fs)
                  \subseteq SeqToSet(cons.valid_files)]_vars

\* C30 witness: of a batch of two files one was deleted before the batch was
\* handled; the classifier was called once, with the other file alone, its
\* answer did not fit, and that file alone is in the journal
C30_Witness ==
  /\ Len(llm_calls) = 1
  /\ llm_calls[1].files =
       <<abspath([dir |-> "A", stem |-> <<"b">>, ext |-> "mkv"])>>
  /\ llm_calls[1].n_results = 0
  /\ [dir |-> "A", stem |-> <<"a">>, ext |-> "mkv"] \notin inbox
  /\ get_failed_files(Fs) = {abspath([dir |-> "A", stem |-> <<"b">>, ext |-> "mkv"])}
  /\ cons.pc = "idle" /\ event_queue = << >>
  /\ sweep_log = << >>

\* C31: once the gate is open the events are handled one at a time, in the
\* order in which they were put: an event is put at the end of the queue; the
\* consumer takes an event only when it handles none, and takes the oldest;
\* and the rename of an audio or subtitle file puts deleted(old path) and
\* then external_media_added(new path), so that the sweep for the old path
\* is over when the new path is linked
C31_FifoHandling ==
  [][/\ event_queue' # event_queue =>
          \/ /\ Enqueued # << >>
             /\ cons' = cons
          \/ /\ event_queue # << >>
             /\ event_queue' = Tail(event_queue)
             /\ is_initial_scan_complete
             /\ cons.pc = "idle" /\ cons'.pc = "handle"
             /\ cons'.ev = Head(event_queue)
     /\ cons'.ev # cons.ev =>
          \/ cons'.ev = NoEvent
          \/ event_queue # << >> /\ cons'.ev = Head(event_queue)
     /\ \A m \in MovePairs :
          (FsMove(m[1], m[2]) /\ m[2].ext \in ExternalSpellings)
            => Enqueued = <<PathEvent("deleted", m[1]),
                            PathEvent("external_media_added", m[2])>>]_vars

\* the destination of the audio track named stem beside the linked movie
MoveAudioDest(stem) ==
  sidecar_dest(abspath(MoveVideo), movie_dest_file(abspath(MoveVideo), Movie),
               abspath([dir |-> "A", stem |-> stem, ext |-> "mka"]))

\* C31 witness: the audio track was renamed; the consumer has handled the
\* deletion of the old path, whose link is gone, and now handles the
\* addition of the new path, which is not linked yet
C31_Witness ==
  /\ cons.pc = "handle"
  /\ cons.ev = PathEvent("external_media_added",
                         [dir |-> "A", stem |-> <<"a", "b">>, ext |-> "mka"])
  /\ event_queue = << >>
  /\ MoveAudioDest(<<"a">>) \notin DOMAIN dest
  /\ MoveAudioDest(<<"a", "b">>) \notin DOMAIN dest
  /\ movie_dest_file(abspath(MoveVideo), Movie) \in DOMAIN dest

MovedVideo == [dir |-> "A", stem |-> <<"b">>, ext |-> "mkv"]

\* the video was renamed and nothing that came of the notification is left
\* to do: its batch was flushed and handled, and the consumer is idle
MoveSettled ==
  /\ MovedVideo \in inbox /\ MoveVideo \notin inbox
  /\ obs.pc = "idle"
  /\ pending_batches = << >>
  /\ \A i \in 1..Len(timers) : timers[i].st \notin {"armed", "fired"}
  /\ Len(batch_log) = 1
  /\ event_queue = << >>
  /\ cons.pc = "idle"

\* no link of the tree points at the path
NoLinkTo(fs, path) ==
  \A d \in DOMAIN fs.dest :
    islink(fs, d) => resolve(fs, d) # path

\* C39: when a video was renamed inside the inbox and every event that came
\* of the notification has been handled, no link of the destination tree
\* points at the old path, and the video at the new path is linked or is in
\* a failure journal
C39_VideoMove ==
  MoveSettled =>
    /\ NoLinkTo(Fs, abspath(MoveVideo))
    /\ \/ HasDestLink(Fs, MovedVideo)
       \/ abspath(MovedVideo) \in get_failed_files(Fs)

\* a video entry of the directory of f that resolves has a stem that equals,
\* or is a prefix of, the stem of f
VideoBeside(e, f) ==
  \E v \in DOMAIN e.before.dest :
    /\ parent(v) = parent(f)
    /\ IsVideo(v) /\ exists(e.before, e.inb, v)
    /\ IsPrefix(basename(v).stem, basename(f).stem)

\* C32: a sweep keeps an audio or subtitle entry that is not a broken link
\* exactly when a video entry that resolves, in the same destination
\* directory, has a stem that equals or is a prefix of the entry's stem; a
\* video of that stem elsewhere in the root does not keep it
C32_SidecarPerDirectory ==
  \A k \in DOMAIN sweep_log :
    LET e == sweep_log[k] IN
    \A f \in DOMAIN e.before.dest :
      (IsSidecar(f) /\ ~Broken(e.before, e.inb, f))
        => (~Removed(e, f) <=> VideoBeside(e, f))

IsFindCall(e) == e.op = "find_external_audio_and_subtitles"

\* the files of the inbox that lie, at any depth, in the directory of the
\* video, in a sibling directory of it, or in a subdirectory of it
Searched(inb, v) ==
  {q \in inb : \/ IsPrefix(parent(v), abspath(q))
               \/ /\ Len(abspath(q)) > Len(parent(v))
                  /\ parent(SubSeq(abspath(q), 1, Len(parent(v)))) = parent(parent(v))}

\* the file is named after another video of its folder
NamedAfterOther(inb, v, q) ==
  \E w \in inb :
    /\ abspath(w) # v /\ IsVideo(abspath(w))
    /\ parent(abspath(w)) = parent(v)
    /\ IsPrefix(w.stem, q.stem)

\* C34: find_external_audio_and_subtitles(v) returns exactly the audio and
\* subtitle files whose name starts with the stem of v and that lie in the
\* directory of v, in a sibling directory or in a subdirectory; each once,
\* audio files in the audio list and subtitles in the subtitle list; and no
\* file named after another video of the folder
C34_SidecarSearch ==
  \A k \in DOMAIN call_log :
    LET e == call_log[k] IN
    IsFindCall(e) =>
      LET Ok(exts) ==
            {abspath(q) : q \in {x \in Searched(e.inb, e.src) :
               /\ lower(x.ext) \in exts
               /\ IsPrefix(basename(e.src).stem, FileName(File(x.stem, x.ext)))}}
      IN /\ SeqToSet(e.result.audio) = Ok(audio_extensions)
         /\ SeqToSet(e.result.subtitles) = Ok(subtitle_extensions)
         /\ Len(e.result.audio) = Cardinality(Ok(audio_extensions))
         /\ Len(e.result.subtitles) = Cardinality(Ok(subtitle_extensions))
         /\ \A q \in e.inb :
              NamedAfterOther(e.inb, e.src, q)
                => abspath(q) \notin SeqToSet(e.result.audio \o e.result.subtitles)

IsFindAndLink(e) == e.op = "link_external_media" /\ e.dst \in {FindDest(v) : v \in FindVideos}

\* the links of the tree beside the video that resolve to the candidate
LinksOf(fs, video_dest_path, cand) ==
  {d \in DOMAIN fs.dest :
     /\ parent(d) = parent(video_dest_path)
     /\ islink(fs, d)
     /\ resolve(fs, d) = cand}

\* C33: for one video, the distinct candidates the search returned end up as
\* distinct links beside the video, each resolving to its own candidate, also
\* when two candidates of different searched directories have the same name
C33_NoSidecarCollision ==
  \A k \in DOMAIN call_log :
    LET e == call_log[k] IN
    IsFindAndLink(e) =>
      \A i \in DOMAIN e.cands : LinksOf(e.after, e.dst, e.cands[i]) # {}

C36_SweepIdempotent ==
  \A k \in DOMAIN sweep_log :
    k + 1 \in DOMAIN sweep_log
      /\ sweep_log[k + 1].before = sweep_log[k].after
      /\ sweep_log[k + 1].inb = sweep_log[k].inb
    => /\ sweep_log[k + 1].after = sweep_log[k + 1].before
       /\ sweep_log[k + 1].removed_count = 0

\* C36 witness: two sweeps in a row, the first of which removed entries and
\* a directory and rewrote a journal
C36_Witness ==
  /\ Len(sweep_log) = 2
  /\ sweep_log[2].before = sweep_log[1].after
  /\ sweep_log[2].inb = sweep_log[1].inb
  /\ sweep_log[1].removed_count > 0
  /\ sweep_log[1].after.dirs # sweep_log[1].before.dirs
  /\ sweep_log[1].after.journal # sweep_log[1].before.journal

IsProcess(e) == e.op = "process_item"

\* the entries of the tree that a call added
CreatedBy(e) == DOMAIN e.after.dest \ DOMAIN e.before.dest

\* C37: when process_movie or process_series returns failure, the tree holds
\* no entry that the call created; and every video link that resolves has
\* its .nfo once the call that created it has returned
C37_FailureLeavesNothing ==
  \A k \in DOMAIN call_log :
    LET e == call_log[k] IN
    IsProcess(e) /\ e.fault # "raise"
    => /\ ~e.result => CreatedBy(e) = {}
       /\ \A d \in CreatedBy(e) :
            IsVideo(d) /\ exists(e.after, e.inb, d)
            => nfo_of(d) \in DOMAIN e.after.dest

\* C38: when process_movie or process_series returns success for s with the
\* destination path d, d is a link that resolves to s, whatever was at d
\* before the call
C38_SuccessLinksSource ==
  \A k \in DOMAIN call_log :
    LET e == call_log[k] IN
    IsProcess(e) /\ e.result
    => /\ islink(e.after, e.dst)
       /\ resolve(e.after, e.dst) = e.src

\* the events the observer and the timers can put on the queue
DeliverEvents ==
  {BatchEvent("A", files) : files \in SUBSET {p \in MainPaths : lower(p.ext) \in video_extensions} \ {{}}}
  \cup {PathEvent("deleted", p) : p \in MainPaths}
  \cup {PathEvent("external_media_added", p) : p \in {q \in MainPaths : lower(q.ext) \in external_media_extensions}}

\* C40: with the observer, the timer callbacks and the consumer scheduled
\* fairly, every path inserted into a pending batch comes to be in a
\* batch_created event put on the queue after the insertion; once the flag
\* is set every event on the queue is taken by the consumer and its handler
\* returns; and pending_batches ends up empty for good
C40_Delivery ==
  /\ \A j \in 1..MaxEvents :
       (Len(ins_log) >= j)
         ~> (\E k \in DOMAIN batch_log :
               /\ batch_log[k].ni >= j
               /\ batch_log[k].folder = ins_log[j].folder
               /\ ins_log[j].file \in batch_log[k].files)
  /\ \A ev \in DeliverEvents :
       (is_initial_scan_complete /\ ev \in SeqToSet(event_queue))
         ~> (cons.pc = "handle" /\ cons.ev = ev)
  /\ (cons.pc # "idle") ~> (cons.pc = "idle")
  /\ <>[](DOMAIN pending_batches = {})

\* C40 witness: two files were inserted for one folder, one batch_created
\* event with both was put on the queue, the consumer has classified it and
\* is back at the top of its loop, and nothing waits any more
C40_Witness ==
  /\ Len(ins_log) = 2
  /\ \E k \in DOMAIN batch_log : Cardinality(batch_log[k].files) = 2
  /\ is_initial_scan_complete
  /\ llm_calls # << >>
  /\ cons.pc = "idle"
  /\ event_queue = << >>
  /\ DOMAIN pending_batches = {}

====
